---- MODULE Spec2Model ----
(***************************************************************************)
(* WebSocketService (src/frontend/src/hooks/useRealTimeData.ts, 193-456):  *)
(* the resilient real-time connection client.  The service runs on the     *)
(* single-threaded event loop: every public method call, transport         *)
(* callback and timer callback is one atomic step of the model.            *)
(***************************************************************************)
EXTENDS Integers, Sequences, FiniteSets

(* ------------------------------ bounds -------------------------------- *)

\* Number of transport instances (new WebSocket(url)) a behaviour may create.
MaxSockets == 2

\* Number of application-level send() calls in a behaviour.
MaxMsgs == 3

\* maxQueueSize (100 in the source, line 211) scaled down so that overflow
\* of the outbound queue happens within MaxMsgs sends.
maxQueueSize == 2

\* maxReconnectAttempts (8 in the source, line 199) scaled down so that the
\* retry ceiling is reached within MaxSockets transports.
maxReconnectAttempts == 1

(* --------------------------- value domains ---------------------------- *)

Sockets == 1..MaxSockets

\* The null handle (this.socket = null).
NoSocket == 0

WSState == {"idle", "connecting", "connected", "reconnecting", "disconnected"}

\* WebSocket.readyState of a transport instance; "NONE": not constructed yet.
ReadyStates == {"NONE", "CONNECTING", "OPEN", "CLOSING", "CLOSED"}

\* A callback identity.  kind "fn": a function of the application, told
\* apart by its name; kind "once": a wrapper closure created by once() around
\* the function of that name; kind "wait": the handler closure created by a
\* waitForConnection() call.  id tells closures apart.
Fn(name) == [kind |-> "fn", name |-> name, id |-> 0]

\* Channels the application subscribes to and the callbacks it registers:
\* cbSend answers every event it receives by calling send("subscribe", 0)
\* on the service; any other callback only observes.
Channels == {"connection", "*"}

Callbacks == {Fn("cbSend")}

\* A frame body that JSON.parse rejects.
Malformed == [malformed |-> TRUE]

\* A parsed frame without a (truthy) type field.
NoType == ""

\* Inbound frames the server may deliver.
Frames ==
  {Malformed} \cup {[type |-> t] : t \in {"pong", "ping", "alert", "*", NoType}}

VARIABLES
  state,              \* this.state
  socket,             \* this.socket: a socket id, or NoSocket
  readyState,         \* readyState of every transport instance
  reconnectAttempts,  \* this.reconnectAttempts
  manualClose,        \* this.manualClose
  heartbeatTimer,     \* this.heartbeatTimer: "null" or "active"
  pongTimeout,        \* this.pongTimeout: "null", "armed", or "spent"
                      \*   (a non-null handle of a fired or cleared timer)
  pongPending,        \* pending setTimeout callbacks of the pong deadline
  messageQueue,       \* this.messageQueue
  listeners,          \* this.listeners: a map channel -> set of callbacks
  waiters,            \* the waitForConnection() calls made so far: the state
                      \*   of each call's timer and promise
  wrappers,           \* number of wrapper closures once() has created
  reconnectTimers,    \* pending setTimeout(() => this.connect(), delay)
  lastConnectedAt,    \* "null" or "set"
  lastDisconnectedAt, \* "null" or "set"
  nextMsg,            \* data of the next application-level send()
  superseded,         \* history: transports that were current at a disconnect()
  offlineSends,       \* history: application send() calls queued since the
                      \*   queue was last changed by anything else
  lastOp,             \* history: the handler that ran in the last step, with
                      \*   the frame it received or the delay it computed
  sent,               \* history: <<socket, frame>> transmitted in the last step
  emitted,            \* history: <<event, data>> dispatched in the last step
  delivered,          \* history: <<callback, channel, payload>> of the last step
  hook,               \* the refs and state of one useWebSocket() instance
  poll                \* the refs and state of one useRealTimeData() instance

vars == <<state, socket, readyState, reconnectAttempts, manualClose,
          heartbeatTimer, pongTimeout, pongPending, messageQueue, listeners,
          waiters, wrappers, reconnectTimers, lastConnectedAt, lastDisconnectedAt, nextMsg,
          superseded, offlineSends, lastOp, sent, emitted, delivered,
          hook, poll>>

(* ------------------------ the service as a value ---------------------- *)

\* The service state at the start of a handler; the per-step logs are empty.
Cur ==
  [state |-> state, socket |-> socket, readyState |-> readyState,
   reconnectAttempts |-> reconnectAttempts, manualClose |-> manualClose,
   heartbeatTimer |-> heartbeatTimer, pongTimeout |-> pongTimeout,
   pongPending |-> pongPending,
   messageQueue |-> messageQueue, listeners |-> listeners,
   waiters |-> waiters, wrappers |-> wrappers,
   reconnectTimers |-> reconnectTimers,
   lastConnectedAt |-> lastConnectedAt,
   lastDisconnectedAt |-> lastDisconnectedAt,
   sent |-> <<>>, emitted |-> <<>>, delivered |-> <<>>]

\* The state a handler leaves behind; last describes the handler.
CommitOp(st, last) ==
  /\ state' = st.state
  /\ socket' = st.socket
  /\ readyState' = st.readyState
  /\ reconnectAttempts' = st.reconnectAttempts
  /\ manualClose' = st.manualClose
  /\ heartbeatTimer' = st.heartbeatTimer
  /\ pongTimeout' = st.pongTimeout
  /\ pongPending' = st.pongPending
  /\ messageQueue' = st.messageQueue
  /\ listeners' = st.listeners
  /\ waiters' = st.waiters
  /\ wrappers' = st.wrappers
  /\ reconnectTimers' = st.reconnectTimers
  /\ lastConnectedAt' = st.lastConnectedAt
  /\ lastDisconnectedAt' = st.lastDisconnectedAt
  /\ sent' = st.sent
  /\ emitted' = st.emitted
  /\ delivered' = st.delivered
  /\ lastOp' = last
  /\ UNCHANGED <<hook, poll>>
  /\ offlineSends' =
       IF last.op = "send"
       THEN (IF st.sent = <<>> THEN offlineSends + 1 ELSE 0)
       ELSE (IF st.messageQueue = messageQueue THEN offlineSends ELSE 0)

\* The state handler op, run for transport s (or for none), leaves behind.
Commit(st, op, s) == CommitOp(st, [op |-> op, sock |-> s])

(* ------------------------------ transport ----------------------------- *)

\* socket.readyState === WebSocket.OPEN on the current handle.
SocketOpen(st) == st.socket # NoSocket /\ st.readyState[st.socket] = "OPEN"

\* WebSocket.close(): starts the closing handshake of a connecting or open
\* transport; the close event follows later.  No effect otherwise.
TransportClose(rs, s) ==
  IF rs[s] \in {"CONNECTING", "OPEN"} THEN [rs EXCEPT ![s] = "CLOSING"] ELSE rs

\* JSON.stringify of an outbound envelope: the wire text, kept as the pair
\* of its fields.
Stringify(message) == <<"json", message.type, message.data>>

\* WebSocket.send() on an open transport.
TransportSend(st, frame) ==
  [st EXCEPT !.sent = Append(@, <<st.socket, frame>>)]

(* --------------------------- outbound queue --------------------------- *)

\* Enqueue with the bound test off by one (> for >=).
EnqueueOffByOne(q, message) ==
  Append(IF Len(q) > maxQueueSize THEN Tail(q) ELSE q, message)

\* Enqueue that makes room by dropping the newest entry (pop for shift).
EnqueueDropNewest(q, message) ==
  Append(IF Len(q) >= maxQueueSize THEN SubSeq(q, 1, Len(q) - 1) ELSE q, message)

\* Lines 390-393: drop the oldest entry at the bound, then append.
Enqueue(q, message) ==
  Append(IF Len(q) >= maxQueueSize THEN Tail(q) ELSE q, message)

\* send that decides by the connection state instead of the transport.
sendByState(st, event, data) ==
  LET message == [type |-> event, data |-> data] IN
  IF st.state = "connected"
  THEN TransportSend(st, Stringify(message))
  ELSE [st EXCEPT !.messageQueue = Enqueue(@, message)]

\* send(event, data)
send(st, event, data) ==
  LET message == [type |-> event, data |-> data] IN
  IF SocketOpen(st)
  THEN TransportSend(st, Stringify(message))
  ELSE [st EXCEPT !.messageQueue = Enqueue(@, message)]

RECURSIVE SendAll(_, _)
\* messageQueue.forEach(msg => socket.send(JSON.stringify(msg)))
SendAll(st, q) ==
  IF q = <<>> THEN st
  ELSE SendAll(TransportSend(st, Stringify(Head(q))), Tail(q))

\* flushQueue()
flushQueue(st) ==
  IF st.messageQueue = <<>> THEN st
  ELSE IF ~SocketOpen(st) THEN st
  ELSE [SendAll(st, st.messageQueue) EXCEPT !.messageQueue = <<>>]

(* --------------------------- event dispatcher ------------------------- *)

\* A JavaScript Set of listeners, kept as the sequence of its members in
\* insertion order: Set.add, Set.delete and the members.
SetAdd(set, x) ==
  IF \E i \in DOMAIN set : set[i] = x THEN set ELSE Append(set, x)

\* Set.delete that drops the oldest member instead of the given one.
SetDeleteOldest(set, x) == IF set = <<>> THEN set ELSE Tail(set)

\* Set.delete: the members other than x, in their order.
SetDelete(set, x) == SelectSeq(set, LAMBDA y : y # x)

Members(set) == {set[i] : i \in DOMAIN set}

\* on(event, callback)
on(st, event, callback) ==
  LET old == IF event \in DOMAIN st.listeners THEN st.listeners[event] ELSE <<>> IN
  [st EXCEPT !.listeners =
     [e \in DOMAIN @ \cup {event} |->
        IF e = event THEN SetAdd(old, callback) ELSE @[e]]]

\* off that leaves the emptied set of a channel in the registry.
offKeepsEmptySet(st, event, callback) ==
  IF event \notin DOMAIN st.listeners THEN st
  ELSE [st EXCEPT !.listeners[event] = SetDelete(@, callback)]

\* off(event, callback)
off(st, event, callback) ==
  IF event \notin DOMAIN st.listeners THEN st
  ELSE LET set == SetDelete(st.listeners[event], callback) IN
       [st EXCEPT !.listeners =
          IF set = <<>>
          THEN [e \in DOMAIN @ \ {event} |-> @[e]]
          ELSE [@ EXCEPT ![event] = set]]

\* once(event, callback): registers a new wrapper closure around callback.
once(st, event, callback) ==
  on([st EXCEPT !.wrappers = @ + 1], event,
     [kind |-> "once", name |-> callback.name, id |-> st.wrappers + 1])

\* resolve(value) of the promise of waitForConnection call w: only the first
\* call settles the promise.
Resolve(st, w, value) ==
  [st EXCEPT !.waiters[w].calls = @ + 1,
             !.waiters[w].resolved = IF @ = "none" THEN value ELSE @]

RECURSIVE emit(_, _, _), Invoke(_, _, _, _), InvokeAll(_, _, _, _)

\* The body of a callback passed in by the application: cbSend calls back
\* into send(), cbReEmit dispatches the event it received once more, any
\* other callback only observes.
InvokeFn(st, name, ch, payload) ==
  CASE name = "cbSend" -> send(st, "subscribe", 0)
    [] name = "cbReEmit" ->
         IF ch = "*" /\ "event" \in DOMAIN payload
         THEN emit(st, payload.event, payload.data)
         ELSE emit(st, ch, payload)
    [] OTHER -> st

\* One listener invocation.  The wrapper of once() first removes itself and
\* then calls the callback; the handler of waitForConnection() reacts to
\* status 'connected' only: clearTimeout(timer), off, resolve(true).
Invoke(st, cb, ch, payload) ==
  LET st1 == [st EXCEPT !.delivered = Append(@, <<cb, ch, payload>>)] IN
  CASE cb.kind = "once" -> InvokeFn(off(st1, ch, cb), cb.name, ch, payload)
    [] cb.kind = "wait" ->
         IF "status" \in DOMAIN payload /\ payload.status = "connected"
         THEN Resolve(off([st1 EXCEPT !.waiters[cb.id].timer = "cleared"],
                          "connection", cb),
                      cb.id, "true")
         ELSE st1
    [] OTHER -> InvokeFn(st1, cb.name, ch, payload)

\* set.forEach(cb => cb(payload)) on the listener set of channel ch: the
\* members are visited in insertion order, and a member removed before its
\* turn is not visited.
InvokeAll(st, ch, visited, payload) ==
  LET set == IF ch \in DOMAIN st.listeners THEN st.listeners[ch] ELSE <<>>
      rest == SelectSeq(set, LAMBDA cb : cb \notin visited)
  IN IF rest = <<>> THEN st
     ELSE InvokeAll(Invoke(st, Head(rest), ch, payload), ch,
                    visited \cup {Head(rest)}, payload)

\* The handler closure of waitForConnection call w.
Handler(w) == [kind |-> "wait", name |-> "handler", id |-> w]

\* waitForConnection(timeoutMs): an already connected service resolves at
\* once and creates neither timer nor handler.
waitForConnection(st) ==
  LET w == Len(st.waiters) + 1 IN
  IF st.state = "connected"
  THEN [st EXCEPT !.waiters = Append(@, [timer |-> "none", resolved |-> "true",
                                         calls |-> 1])]
  ELSE on([st EXCEPT !.waiters = Append(@, [timer |-> "pending",
                                            resolved |-> "none", calls |-> 0])],
          "connection", Handler(w))

\* Timer callback that resolves without unsubscribing the handler.
waitTimeoutKeepsHandler(st, w) ==
  Resolve([st EXCEPT !.waiters[w].timer = "fired"], w, "false")

\* The setTimeout callback of waitForConnection call w: off, resolve(false).
waitTimeout(st, w) ==
  Resolve(off([st EXCEPT !.waiters[w].timer = "fired"], "connection", Handler(w)),
          w, "false")

\* emit(event, data)
emit(st, event, data) ==
  LET st0 == [st EXCEPT !.emitted = Append(@, <<event, data>>)]
      st1 == IF event \in DOMAIN st0.listeners
             THEN InvokeAll(st0, event, {}, data)
             ELSE st0
  IN IF "*" \in DOMAIN st1.listeners
     THEN InvokeAll(st1, "*", {}, [event |-> event, data |-> data])
     ELSE st1

(* ------------------------------ heartbeat ----------------------------- *)

\* if (this.pongTimeout) clearTimeout(this.pongTimeout): cancels the timer
\* the handle refers to when it is still pending; the handle stays non-null.
clearPongTimeout(st) ==
  [st EXCEPT !.pongPending = IF st.pongTimeout = "armed" THEN @ - 1 ELSE @,
             !.pongTimeout = IF @ = "null" THEN @ ELSE "spent"]

\* clearHeartbeat()
clearHeartbeat(st) ==
  [clearPongTimeout(st) EXCEPT !.heartbeatTimer = "null", !.pongTimeout = "null"]

\* startHeartbeat(): the interval callback is HeartbeatTick below.
startHeartbeat(st) ==
  [clearHeartbeat(st) EXCEPT !.heartbeatTimer = "active"]

\* heartbeatTick that arms a new pong deadline without cancelling the
\* pending one.
heartbeatTickKeepsDeadline(st) ==
  IF ~SocketOpen(st) THEN st
  ELSE [TransportSend(st, <<"json", "ping", "ts">>)
          EXCEPT !.pongTimeout = "armed", !.pongPending = @ + 1]

\* The setInterval callback of startHeartbeat.
heartbeatTick(st) ==
  IF ~SocketOpen(st) THEN st
  ELSE [clearPongTimeout(TransportSend(st, <<"json", "ping", "ts">>))
          EXCEPT !.pongTimeout = "armed", !.pongPending = @ + 1]

\* The setTimeout callback armed by a ping: this.socket?.close().  Deadlines
\* have one length, so the oldest pending one fires: it is the one the handle
\* refers to only when no other is pending.
pongTimeoutFires(st) ==
  [st EXCEPT !.pongPending = @ - 1,
             !.pongTimeout = IF @ = "armed" /\ st.pongPending = 1
                             THEN "spent" ELSE @,
             !.readyState = IF st.socket = NoSocket THEN @
                            ELSE TransportClose(@, st.socket)]

(* -------------------------- connection manager ------------------------ *)

\* The id the next new WebSocket(url) gets.
FreshSocket(st) ==
  CHOOSE s \in DOMAIN st.readyState :
    /\ st.readyState[s] = "NONE"
    /\ \A t \in DOMAIN st.readyState : t < s => st.readyState[t] # "NONE"

\* connect that does not announce the attempt in the state.
connectKeepsState(st) ==
  IF SocketOpen(st) THEN st
  ELSE LET s == FreshSocket(st) IN
       [st EXCEPT !.manualClose = FALSE,
                  !.socket = s,
                  !.readyState = [@ EXCEPT ![s] = "CONNECTING"]]

\* connect that also resets the retry counter.
connectResetsAttempts(st) ==
  IF SocketOpen(st) THEN st
  ELSE LET s == FreshSocket(st) IN
       [st EXCEPT !.manualClose = FALSE,
                  !.state = "connecting",
                  !.socket = s,
                  !.reconnectAttempts = 0,
                  !.readyState = [@ EXCEPT ![s] = "CONNECTING"]]

\* onopen that does not start the heartbeat.
onopenSkipsHeartbeat(st) ==
  LET st1 == [st EXCEPT !.state = "connected",
                        !.reconnectAttempts = 0,
                        !.lastConnectedAt = "set"]
      st2 == emit(st1, "connection", [status |-> "connected"])
  IN flushQueue(st2)

\* onopen that leaves the retry counter alone.
onopenKeepsAttempts(st) ==
  LET st1 == [st EXCEPT !.state = "connected",
                        !.lastConnectedAt = "set"]
      st2 == emit(st1, "connection", [status |-> "connected"])
  IN flushQueue(startHeartbeat(st2))

\* connect(); setupEventHandlers() attaches the four callbacks to the new
\* transport: they are the Transport* actions below, enabled for every
\* constructed transport since nothing ever detaches them.
connect(st) ==
  IF SocketOpen(st) THEN st
  ELSE LET s == FreshSocket(st) IN
       [st EXCEPT !.manualClose = FALSE,
                  !.state = "connecting",
                  !.socket = s,
                  !.readyState = [@ EXCEPT ![s] = "CONNECTING"]]

\* handleReconnect whose ceiling test is off by one.
handleReconnectPastCeiling(st) ==
  IF st.reconnectAttempts > maxReconnectAttempts
  THEN emit(st, "connection", [status |-> "failed"])
  ELSE [st EXCEPT !.reconnectAttempts = @ + 1,
                  !.state = "reconnecting",
                  !.reconnectTimers = @ + 1]

\* handleReconnect()
handleReconnect(st) ==
  IF st.reconnectAttempts >= maxReconnectAttempts
  THEN emit(st, "connection", [status |-> "failed"])
  ELSE [st EXCEPT !.reconnectAttempts = @ + 1,
                  !.state = "reconnecting",
                  !.reconnectTimers = @ + 1]

\* socket.onopen
onopen(st) ==
  LET st1 == [st EXCEPT !.state = "connected",
                        !.reconnectAttempts = 0,
                        !.lastConnectedAt = "set"]
      st2 == emit(st1, "connection", [status |-> "connected"])
  IN flushQueue(startHeartbeat(st2))

\* onclose that leaves the retry to the caller.
oncloseNeverRetries(st) ==
  LET st1 == [clearHeartbeat([st EXCEPT !.state = "disconnected"])
                EXCEPT !.lastDisconnectedAt = "set"]
  IN emit(st1, "connection", [status |-> "disconnected"])

\* socket.onclose
onclose(st) ==
  LET st1 == [clearHeartbeat([st EXCEPT !.state = "disconnected"])
                EXCEPT !.lastDisconnectedAt = "set"]
      st2 == emit(st1, "connection", [status |-> "disconnected"])
  IN IF ~st2.manualClose THEN handleReconnect(st2) ELSE st2

\* onerror that starts the reconnection itself instead of leaving it to
\* onclose.
onerrorReconnects(st) ==
  handleReconnect(emit(st, "connection", [status |-> "error"]))

\* socket.onerror
onerror(st) == emit(st, "connection", [status |-> "error"])

\* onmessage that treats an unparseable frame as an untyped message.
onmessageDispatchesMalformed(st, frame) ==
  IF frame = Malformed THEN emit(st, "message", frame)
  ELSE LET type == IF frame.type = NoType THEN "message" ELSE frame.type IN
       IF type = "pong"
       THEN clearPongTimeout(st)
       ELSE emit(st, type, frame)

\* onmessage that drops a pong without cancelling the deadline.
onmessagePongKeepsDeadline(st, frame) ==
  IF frame = Malformed THEN st
  ELSE LET type == IF frame.type = NoType THEN "message" ELSE frame.type IN
       IF type = "pong"
       THEN st
       ELSE emit(st, type, frame)

\* socket.onmessage
onmessage(st, frame) ==
  IF frame = Malformed THEN st
  ELSE LET type == IF frame.type = NoType THEN "message" ELSE frame.type IN
       IF type = "pong"
       THEN clearPongTimeout(st)
       ELSE emit(st, type, frame)

\* disconnect that forgets the heartbeat teardown.
disconnectKeepsHeartbeat(st) ==
  LET st1 == [st EXCEPT !.manualClose = TRUE]
      st2 == IF st1.socket # NoSocket
             THEN [st1 EXCEPT !.readyState = TransportClose(@, st1.socket),
                              !.socket = NoSocket]
             ELSE st1
  IN [st2 EXCEPT !.listeners = <<>>, !.state = "disconnected"]

\* disconnect()
disconnect(st) ==
  LET st1 == clearHeartbeat([st EXCEPT !.manualClose = TRUE])
      st2 == IF st1.socket # NoSocket
             THEN [st1 EXCEPT !.readyState = TransportClose(@, st1.socket),
                              !.socket = NoSocket]
             ELSE st1
  IN [st2 EXCEPT !.listeners = <<>>, !.state = "disconnected"]

\* forceReconnect that skips the teardown.
forceReconnectSkipsDisconnect(st) == connect(st)

\* forceReconnect()
forceReconnect(st) == connect(disconnect(st))

\* isConnected()
isConnected == state = "connected"

\* getStats()
getStats ==
  [state |-> state, reconnectAttempts |-> reconnectAttempts,
   lastConnectedAt |-> lastConnectedAt,
   lastDisconnectedAt |-> lastDisconnectedAt,
   queuedMessages |-> Len(messageQueue)]

(* ------------------------------- actions ------------------------------ *)

(* ------------------------- the useWebSocket hook ---------------------- *)

\* Transports one hook instance constructs, and messages it queues, at most.
MaxHookSockets == 4
MaxHookQueue == 1

\* Defaults of the options reconnectInterval and maxReconnectInterval.
reconnectInterval == 2000
maxReconnectInterval == 30000

\* The options a component passes: reconnectAttempts is Infinity (the
\* default) when unbounded is set and the number given otherwise;
\* urlOk tells whether new WebSocket(url) accepts the url or throws.
HookOptions ==
  [unbounded : BOOLEAN, reconnectAttempts : 0..2,
   reconnectInterval : {reconnectInterval},
   maxReconnectInterval : {5000, maxReconnectInterval},
   urlOk : BOOLEAN]

\* The options object {} of a call without options.
DefaultOptions ==
  [unbounded |-> TRUE, reconnectAttempts |-> 0,
   reconnectInterval |-> reconnectInterval,
   maxReconnectInterval |-> maxReconnectInterval, urlOk |-> TRUE]

\* The hook before its component is mounted: useState and useRef initial
\* values.  sockets holds every WebSocket constructed, with its readyState
\* and whether its four callbacks are attached; timers and heartbeats count
\* the pending setTimeout(connect) and the running setInterval callbacks,
\* and the two refs tell whether the handle they hold is one of those.
\* History: closes counts the closes handled since the last open,
\* lastDelay is the delay of the last retry scheduled since then,
\* optionsChanged tells whether the options changed since then, and last
\* describes the callback of the last step.
HookUnmounted ==
  [mounted |-> FALSE, unmounted |-> FALSE, options |-> DefaultOptions,
   status |-> "connecting", error |-> "null", lastMessage |-> "null",
   ws |-> 0, sockets |-> <<>>,
   reconnectCount |-> 0,
   timers |-> 0, reconnectTimeoutRef |-> "undefined",
   heartbeats |-> 0, heartbeatRef |-> "undefined",
   messageQueue |-> <<>>,
   closes |-> 0, lastDelay |-> 0, optionsChanged |-> FALSE,
   last |-> [op |-> "init", sock |-> 0, delay |-> 0]]

\* clearTimeout / clearInterval on a ref: it stops the timer the ref holds,
\* if that one is still running, and no other.
ClearRef(count, ref) == IF ref = "running" THEN count - 1 ELSE count
Cleared(ref) == IF ref = "running" THEN "stopped" ELSE ref

\* WebSocket.close()
HookClose(sockets, s) ==
  [sockets EXCEPT ![s].readyState =
     IF @ \in {"CONNECTING", "OPEN"} THEN "CLOSING" ELSE @]

\* cleanup that closes the previous socket with its callbacks attached.
cleanupKeepsCallbacks(h) ==
  LET h1 == [h EXCEPT !.timers = ClearRef(@, h.reconnectTimeoutRef),
                      !.reconnectTimeoutRef = Cleared(@),
                      !.heartbeats = ClearRef(@, h.heartbeatRef),
                      !.heartbeatRef = Cleared(@)]
  IN IF h1.ws = 0 THEN h1
     ELSE [h1 EXCEPT !.sockets = HookClose(@, h1.ws)]

\* cleanup()
cleanup(h) ==
  LET h1 == [h EXCEPT !.timers = ClearRef(@, h.reconnectTimeoutRef),
                      !.reconnectTimeoutRef = Cleared(@),
                      !.heartbeats = ClearRef(@, h.heartbeatRef),
                      !.heartbeatRef = Cleared(@)]
  IN IF h1.ws = 0 THEN h1
     ELSE [h1 EXCEPT !.sockets =
             HookClose([@ EXCEPT ![h1.ws].attached = FALSE], h1.ws)]

\* connect(): cleanup, then a new socket with its four callbacks, or the
\* catch branch when the constructor throws.
hookConnect(h) ==
  LET h1 == [cleanup(h) EXCEPT !.status = "connecting"] IN
  IF h1.options.urlOk
  THEN [h1 EXCEPT !.sockets = Append(@, [readyState |-> "CONNECTING",
                                         attached |-> TRUE]),
                  !.ws = Len(h1.sockets) + 1]
  ELSE [h1 EXCEPT !.error = "Failed to establish WebSocket connection",
                  !.status = "error"]

\* setupHeartbeat()
setupHeartbeat(h) ==
  [h EXCEPT !.heartbeats = @ + 1, !.heartbeatRef = "running"]

\* ws.current.onopen that keeps the retry count.
hookOnopenKeepsCount(h) ==
  LET h1 == [h EXCEPT !.status = "open", !.error = "null", !.closes = 0,
                      !.lastDelay = 0, !.optionsChanged = FALSE]
      h2 == IF h1.ws # 0 /\ h1.sockets[h1.ws].readyState = "OPEN"
            THEN [h1 EXCEPT !.messageQueue = <<>>]
            ELSE h1
  IN setupHeartbeat(h2)

\* ws.current.onopen: the flush loop reads ws.current, not the socket that
\* opened.
hookOnopen(h) ==
  LET h1 == [h EXCEPT !.status = "open", !.error = "null",
                      !.reconnectCount = 0, !.closes = 0,
                      !.lastDelay = 0, !.optionsChanged = FALSE]
      h2 == IF h1.ws # 0 /\ h1.sockets[h1.ws].readyState = "OPEN"
            THEN [h1 EXCEPT !.messageQueue = <<>>]
            ELSE h1
  IN setupHeartbeat(h2)

\* ws.current.onmessage
hookOnmessage(h, parsed) ==
  IF parsed THEN [h EXCEPT !.lastMessage = "set"] ELSE h

\* reconnectCount.current < reconnectAttempts
BelowLimit(h) ==
  h.options.unbounded \/ h.reconnectCount < h.options.reconnectAttempts

\* Math.min(a, b) and Math.pow(2, n)
MathMin(a, b) == IF a <= b THEN a ELSE b
RECURSIVE HookPow2(_)
HookPow2(n) == IF n = 0 THEN 1 ELSE 2 * HookPow2(n - 1)

\* The delay computed in onclose.
HookDelay(h) ==
  MathMin(h.options.reconnectInterval * HookPow2(h.reconnectCount),
      h.options.maxReconnectInterval)

\* ws.current.onclose that retries whatever reconnectAttempts says.
hookOncloseIgnoresLimit(h) ==
  [h EXCEPT !.status = "reconnecting", !.closes = @ + 1,
            !.reconnectCount = @ + 1,
            !.timers = @ + 1, !.reconnectTimeoutRef = "running",
            !.last.delay = HookDelay(h), !.lastDelay = HookDelay(h)]

\* ws.current.onclose
hookOnclose(h) ==
  LET h1 == [h EXCEPT !.status = "closed", !.closes = @ + 1] IN
  IF BelowLimit(h1)
  THEN [h1 EXCEPT !.reconnectCount = @ + 1,
                  !.status = "reconnecting",
                  !.timers = @ + 1, !.reconnectTimeoutRef = "running",
                  !.last.delay = HookDelay(h1), !.lastDelay = HookDelay(h1)]
  ELSE h1

\* ws.current.onerror
hookOnerror(h) == [h EXCEPT !.error = "WebSocket error", !.status = "error"]

\* A pending setTimeout(connect, delay) fires, the oldest first: the handle
\* in the ref is the newest, so it is the one firing only when no other is
\* pending.
hookTimerFires(h) ==
  hookConnect([h EXCEPT !.timers = @ - 1,
                        !.reconnectTimeoutRef =
                          IF @ = "running" /\ h.timers = 1 THEN "fired" ELSE @])

\* sendMessage(message)
sendMessage(h) ==
  IF h.ws # 0 /\ h.sockets[h.ws].readyState = "OPEN" THEN h
  ELSE [h EXCEPT !.messageQueue = Append(@, "msg")]

\* AbortController objects one mount of useRealTimeData may create.
MaxFetches == 3

\* response.data values fetchFunction resolves with.
PollData == {"d1", "d2"}

\* What fetchFunction rejects with: a DOMException named AbortError, an
\* Error, or a thrown value that is not an Error.
PollFailures ==
  {[dom |-> TRUE, name |-> "AbortError", isError |-> TRUE,
    message |-> "aborted"],
   [dom |-> FALSE, name |-> "Error", isError |-> TRUE, message |-> "boom"],
   [dom |-> FALSE, name |-> "none", isError |-> FALSE, message |-> "none"]}

\* useRealTimeData before its effect ran: the useState and useRef initial
\* values.  controllers holds every AbortController made so far, now is the
\* clock new Date() reads; onSuccess and onError count the calls of the two
\* option callbacks; cleaned and last are history.
PollUnmounted ==
  [mounted |-> FALSE, unmounted |-> FALSE, enabled |-> TRUE,
   intervalPositive |-> TRUE,
   data |-> "null", loading |-> TRUE, error |-> "null", lastUpdated |-> 0,
   isConnected |-> FALSE, intervalRef |-> "undefined",
   abortControllerRef |-> 0, controllers |-> <<>>, now |-> 0,
   onSuccess |-> 0, onError |-> 0, cleaned |-> FALSE,
   last |-> [op |-> "init", ctl |-> 0, superseded |-> FALSE,
             changed |-> FALSE]]

\* abortControllerRef.current?.abort()
AbortCurrent(p) ==
  IF p.abortControllerRef = 0 THEN p
  ELSE [p EXCEPT !.controllers[p.abortControllerRef].aborted = TRUE]

\* fetchData up to its await: the previous controller is aborted, a new one
\* becomes current, error is reset and fetchFunction() is called.
fetchData(p) ==
  IF ~p.enabled THEN p
  ELSE LET p1 == AbortCurrent(p) IN
       [p1 EXCEPT
          !.controllers = Append(@, [aborted |-> FALSE, settled |-> FALSE]),
          !.abortControllerRef = Len(p1.controllers) + 1,
          !.error = "null",
          !.cleaned = FALSE]

\* The state setters of a component that is gone change nothing: the
\* useState fields of q, the hook after a continuation, stay those of p.
Rendered(p, q) ==
  IF p.unmounted
  THEN [q EXCEPT !.data = p.data, !.loading = p.loading, !.error = p.error,
                 !.lastUpdated = p.lastUpdated,
                 !.isConnected = p.isConnected]
  ELSE q

\* The finally block of fetchData for controller c.
fetchFinally(p, c) ==
  IF ~p.controllers[c].aborted THEN [p EXCEPT !.loading = FALSE] ELSE p

\* fetchData after its await when fetchFunction() resolved with d.
fetchResolved(p, c, d) ==
  LET p1 == [p EXCEPT !.controllers[c].settled = TRUE, !.now = @ + 1]
      p2 == IF ~p1.controllers[c].aborted
            THEN [p1 EXCEPT !.data = d, !.lastUpdated = p1.now,
                            !.isConnected = TRUE, !.onSuccess = @ + 1]
            ELSE p1
  IN  Rendered(p, fetchFinally(p2, c))

\* err instanceof DOMException && err.name === 'AbortError'
IsAbortError(e) == e.dom /\ e.name = "AbortError"

\* err instanceof Error ? err.message : 'Unknown error'
ErrorMessage(e) == IF e.isError THEN e.message ELSE "Unknown error"

\* fetchData after its await when fetchFunction() rejected with e.
fetchRejected(p, c, e) ==
  LET p1 == [p EXCEPT !.controllers[c].settled = TRUE, !.now = @ + 1]
      p2 == IF ~IsAbortError(e)
            THEN [p1 EXCEPT !.error = ErrorMessage(e),
                            !.isConnected = FALSE, !.onError = @ + 1]
            ELSE p1
  IN  Rendered(p, fetchFinally(p2, c))

\* The effect's cleanup: the interval is cleared and the current controller
\* aborted.
pollCleanup(p) ==
  [AbortCurrent(p) EXCEPT !.intervalRef = Cleared(@), !.cleaned = TRUE]

\* The effect body: nothing when disabled, else a first fetchData() and the
\* interval when interval > 0.
pollEffect(p) ==
  IF ~p.enabled THEN p
  ELSE LET p1 == fetchData(p) IN
       IF p1.intervalPositive THEN [p1 EXCEPT !.intervalRef = "running"]
       ELSE p1

\* refresh()
refresh(p) == fetchData([p EXCEPT !.loading = TRUE])

\* A transport can still be constructed within the bound.
CanCreate == \E s \in DOMAIN readyState : readyState[s] = "NONE"

Init ==
  /\ state = "idle"
  /\ socket = NoSocket
  /\ readyState = [s \in Sockets |-> "NONE"]
  /\ reconnectAttempts = 0
  /\ manualClose = FALSE
  /\ heartbeatTimer = "null"
  /\ pongTimeout = "null"
  /\ pongPending = 0
  /\ messageQueue = <<>>
  /\ listeners = <<>>
  /\ waiters = <<>>
  /\ wrappers = 0
  /\ reconnectTimers = 0
  /\ lastConnectedAt = "null"
  /\ lastDisconnectedAt = "null"
  /\ nextMsg = 1
  /\ superseded = {}
  /\ offlineSends = 0
  /\ lastOp = [op |-> "init", sock |-> NoSocket]
  /\ hook = HookUnmounted
  /\ poll = PollUnmounted
  /\ sent = <<>>
  /\ emitted = <<>>
  /\ delivered = <<>>

\* The application calls connect().
Connect ==
  /\ SocketOpen(Cur) \/ CanCreate
  /\ Commit(connect(Cur), "connect", NoSocket)
  /\ UNCHANGED <<nextMsg, superseded>>

\* The application calls disconnect().
Disconnect ==
  /\ Commit(disconnect(Cur), "disconnect", NoSocket)
  /\ superseded' = superseded \cup (IF socket = NoSocket THEN {} ELSE {socket})
  /\ UNCHANGED nextMsg

\* The application calls forceReconnect().
ForceReconnect ==
  /\ CanCreate
  /\ Commit(forceReconnect(Cur), "forceReconnect", NoSocket)
  /\ superseded' = superseded \cup (IF socket = NoSocket THEN {} ELSE {socket})
  /\ UNCHANGED nextMsg

\* The application calls send("alert", nextMsg).
Send ==
  /\ nextMsg <= MaxMsgs
  /\ Commit(send(Cur, "alert", nextMsg), "send", NoSocket)
  /\ nextMsg' = nextMsg + 1
  /\ UNCHANGED superseded

\* The application calls on(ch, cb).
On ==
  \E ch \in Channels, cb \in Callbacks :
    /\ Commit(on(Cur, ch, cb), "on", NoSocket)
    /\ UNCHANGED <<nextMsg, superseded>>

\* The application calls off(ch, cb).
Off ==
  \E ch \in Channels, cb \in Callbacks :
    /\ Commit(off(Cur, ch, cb), "off", NoSocket)
    /\ UNCHANGED <<nextMsg, superseded>>

\* The transport's open event: the handshake of s succeeded.
TransportOpen ==
  \E s \in DOMAIN readyState :
    /\ readyState[s] = "CONNECTING"
    /\ Commit(onopen([Cur EXCEPT !.readyState[s] = "OPEN"]), "onopen", s)
    /\ UNCHANGED <<nextMsg, superseded>>

\* The transport's close event: s failed to connect, was closed by the
\* peer or the network, or finished the closing handshake.
TransportClosed ==
  \E s \in DOMAIN readyState :
    /\ readyState[s] \in {"CONNECTING", "OPEN", "CLOSING"}
    /\ Commit(onclose([Cur EXCEPT !.readyState[s] = "CLOSED"]), "onclose", s)
    /\ UNCHANGED <<nextMsg, superseded>>

\* The transport's error event, which precedes the close event of a failure.
TransportError ==
  \E s \in DOMAIN readyState :
    /\ readyState[s] \in {"CONNECTING", "OPEN", "CLOSING"}
    /\ Commit(onerror(Cur), "onerror", s)
    /\ UNCHANGED <<nextMsg, superseded>>

\* The transport's message event: a frame arrives on the open transport s.
TransportMessage ==
  \E s \in DOMAIN readyState, frame \in Frames :
    /\ readyState[s] = "OPEN"
    /\ CommitOp(onmessage(Cur, frame),
                [op |-> "onmessage", sock |-> s, frame |-> frame])
    /\ UNCHANGED <<nextMsg, superseded>>

\* The heartbeat interval elapses.
HeartbeatTick ==
  /\ heartbeatTimer = "active"
  /\ Commit(heartbeatTick(Cur), "heartbeatTick", NoSocket)
  /\ UNCHANGED <<nextMsg, superseded>>

\* The pong deadline elapses.
PongTimeoutFires ==
  /\ pongPending > 0
  /\ Commit(pongTimeoutFires(Cur), "pongTimeout", NoSocket)
  /\ UNCHANGED <<nextMsg, superseded>>

\* A reconnection delay elapses: the timer callback calls connect().
ReconnectTimerFires ==
  /\ reconnectTimers > 0
  /\ SocketOpen(Cur) \/ CanCreate
  /\ Commit(connect([Cur EXCEPT !.reconnectTimers = @ - 1]), "reconnectTimer", NoSocket)
  /\ UNCHANGED <<nextMsg, superseded>>

Next ==
  \/ Connect
  \/ Disconnect
  \/ ForceReconnect
  \/ Send
  \/ On
  \/ Off
  \/ TransportOpen
  \/ TransportClosed
  \/ TransportError
  \/ TransportMessage
  \/ HeartbeatTick
  \/ PongTimeoutFires
  \/ ReconnectTimerFires

Spec == Init /\ [][Next]_vars

(* ----------------------- connection lifecycle only -------------------- *)

\* Transports of the lifecycle specifications: one more than Sockets, so
\* that a retry can still construct a transport once maxReconnectAttempts
\* closures in a row have been counted.
LifecycleSockets == 1..(MaxSockets + 1)

\* The state after construction, with LifecycleSockets transports available.
InitLifecycle ==
  /\ state = "idle"
  /\ socket = NoSocket
  /\ readyState = [s \in LifecycleSockets |-> "NONE"]
  /\ reconnectAttempts = 0
  /\ manualClose = FALSE
  /\ heartbeatTimer = "null"
  /\ pongTimeout = "null"
  /\ pongPending = 0
  /\ messageQueue = <<>>
  /\ listeners = <<>>
  /\ waiters = <<>>
  /\ wrappers = 0
  /\ reconnectTimers = 0
  /\ lastConnectedAt = "null"
  /\ lastDisconnectedAt = "null"
  /\ nextMsg = 1
  /\ superseded = {}
  /\ offlineSends = 0
  /\ lastOp = [op |-> "init", sock |-> NoSocket]
  /\ hook = HookUnmounted
  /\ poll = PollUnmounted
  /\ sent = <<>>
  /\ emitted = <<>>
  /\ delivered = <<>>

\* The service driven by an application that only opens and closes the
\* connection: no send(), on() or off().
NextLifecycle ==
  \/ Connect
  \/ Disconnect
  \/ ForceReconnect
  \/ TransportOpen
  \/ TransportClosed
  \/ TransportError
  \/ TransportMessage
  \/ HeartbeatTick
  \/ PongTimeoutFires
  \/ ReconnectTimerFires

SpecLifecycle == InitLifecycle /\ [][NextLifecycle]_vars

\* The close event of an open transport: the peer or the network dropped it.
TransportDropped ==
  \E s \in DOMAIN readyState :
    /\ readyState[s] = "OPEN"
    /\ Commit(onclose([Cur EXCEPT !.readyState[s] = "CLOSED"]), "onclose", s)
    /\ UNCHANGED <<nextMsg, superseded>>

\* The close event that ends the closing handshake started by close().
TransportCloseCompletes ==
  \E s \in DOMAIN readyState :
    /\ readyState[s] = "CLOSING"
    /\ Commit(onclose([Cur EXCEPT !.readyState[s] = "CLOSED"]), "onclose", s)
    /\ UNCHANGED <<nextMsg, superseded>>

\* The lifecycle against a server that accepts every open attempt: a
\* transport closes only after it has opened or was asked to close.
NextAccepting ==
  \/ Connect
  \/ Disconnect
  \/ ForceReconnect
  \/ TransportOpen
  \/ TransportDropped
  \/ TransportCloseCompletes
  \/ TransportError
  \/ TransportMessage
  \/ HeartbeatTick
  \/ PongTimeoutFires
  \/ ReconnectTimerFires

\* Timers that are due fire, a pending handshake succeeds and a closing
\* handshake ends; the application and the network are under no obligation.
SpecAccepting ==
  /\ InitLifecycle
  /\ [][NextAccepting]_vars
  /\ WF_vars(ReconnectTimerFires)
  /\ WF_vars(HeartbeatTick)
  /\ WF_vars(PongTimeoutFires)
  /\ WF_vars(TransportOpen)
  /\ WF_vars(TransportCloseCompletes)

(* --------------------------- retry delay ------------------------------ *)

\* this.baseReconnectDelay, in milliseconds.
baseReconnectDelay == 1000

\* this.maxReconnectAttempts as the source sets it; the specifications above
\* use the scaled-down maxReconnectAttempts.
maxReconnectAttemptsSource == 8

\* jitter = 300 + Math.random() * 300, in whole milliseconds: Math.random()
\* is in [0, 1), so the jitter is in [JitterMin, JitterMin + JitterSpan).
JitterMin == 300

JitterSpan == 300

Jitter == JitterMin..(JitterMin + JitterSpan - 1)

RECURSIVE Pow2(_)
\* Math.pow(2, n)
Pow2(n) == IF n = 0 THEN 1 ELSE 2 * Pow2(n - 1)

\* The delay handleReconnect() passes to setTimeout once it has counted the
\* retry: baseReconnectDelay * Math.pow(2, reconnectAttempts - 1) + jitter.
ReconnectDelay(attempts, jitter) == baseReconnectDelay * Pow2(attempts - 1) + jitter

\* What a step of the retry-delay specification leaves alone: the transports
\* of the failed attempts are not tracked.
BackoffUntouched ==
  UNCHANGED <<socket, readyState, manualClose, heartbeatTimer, pongTimeout,
              pongPending, messageQueue, listeners, waiters, wrappers, lastConnectedAt,
              nextMsg,
              superseded, offlineSends, sent, delivered, hook, poll>>

\* An open attempt fails, or the open transport is dropped, below the retry
\* ceiling: the close handling runs
\* handleReconnect(), which counts the retry and schedules it after the
\* delay recorded in lastOp.
RetryScheduled ==
  \E jitter \in Jitter :
    /\ state \in {"idle", "connected", "reconnecting"}
    /\ reconnectAttempts < maxReconnectAttemptsSource
    /\ reconnectAttempts' = reconnectAttempts + 1
    /\ state' = "reconnecting"
    /\ reconnectTimers' = 1
    /\ lastDisconnectedAt' = "set"
    /\ emitted' = <<<<"connection", [status |-> "disconnected"]>>>>
    /\ lastOp' = [op |-> "retryScheduled", sock |-> NoSocket,
                  delay |-> ReconnectDelay(reconnectAttempts + 1, jitter)]
    /\ BackoffUntouched

\* A retry fails at the retry ceiling: handleReconnect() dispatches
\* 'failed' and schedules nothing.
RetryRefused ==
  /\ state = "reconnecting"
  /\ reconnectAttempts >= maxReconnectAttemptsSource
  /\ state' = "disconnected"
  /\ reconnectTimers' = 0
  /\ lastDisconnectedAt' = "set"
  /\ emitted' = <<<<"connection", [status |-> "disconnected"]>>,
                  <<"connection", [status |-> "failed"]>>>>
  /\ lastOp' = [op |-> "retryRefused", sock |-> NoSocket]
  /\ UNCHANGED reconnectAttempts
  /\ BackoffUntouched

\* A retry succeeds: onopen resets the retry counter, which ends the
\* sequence of successive failed opens.
RetrySucceeds ==
  /\ state = "reconnecting"
  /\ reconnectAttempts' = 0
  /\ state' = "connected"
  /\ reconnectTimers' = 0
  /\ emitted' = <<<<"connection", [status |-> "connected"]>>>>
  /\ lastOp' = [op |-> "onopen", sock |-> NoSocket]
  /\ UNCHANGED lastDisconnectedAt
  /\ BackoffUntouched

NextBackoff ==
  \/ RetryScheduled
  \/ RetryRefused
  \/ RetrySucceeds

\* Successive open attempts of one service, with the source's retry ceiling
\* and every jitter value in whole milliseconds.
SpecBackoff == Init /\ [][NextBackoff]_vars

(* ----------------------- dispatcher and futures ----------------------- *)

\* Number of once() calls in a behaviour.
MaxOnce == 1

\* Number of waitForConnection() calls in a behaviour.
MaxWaits == 1

\* Channels the application of the dispatcher specification subscribes to.
DispatchChannels == {"connection", "ping", "*"}

\* The function it registers with on() and removes with off().
DispatchCallbacks == {Fn("cbPlain")}

\* The functions it registers with once(): cbReEmit dispatches the event it
\* receives once more from inside the callback.
OnceCallbacks == {Fn("cbPlain"), Fn("cbReEmit")}

\* The application calls on(ch, cb).
Subscribe ==
  \E ch \in DispatchChannels, cb \in DispatchCallbacks :
    /\ Commit(on(Cur, ch, cb), "on", NoSocket)
    /\ UNCHANGED <<nextMsg, superseded>>

\* The application calls once(ch, cb).
SubscribeOnce ==
  \E ch \in DispatchChannels, cb \in OnceCallbacks :
    /\ wrappers < MaxOnce
    /\ Commit(once(Cur, ch, cb), "once", NoSocket)
    /\ UNCHANGED <<nextMsg, superseded>>

\* The application calls off(ch, cb), registered or not.
Unsubscribe ==
  \E ch \in DispatchChannels, cb \in DispatchCallbacks :
    /\ CommitOp(off(Cur, ch, cb),
                [op |-> "off", sock |-> NoSocket, event |-> ch, callback |-> cb,
                 deleted |-> ch \in DOMAIN listeners /\ cb \in Members(listeners[ch])])
    /\ UNCHANGED <<nextMsg, superseded>>

\* The application calls waitForConnection().
WaitForConnection ==
  /\ Len(waiters) < MaxWaits
  /\ Commit(waitForConnection(Cur), "waitForConnection", NoSocket)
  /\ UNCHANGED <<nextMsg, superseded>>

\* The timeout of a waitForConnection() call elapses.
WaitTimeoutFires ==
  \E w \in DOMAIN waiters :
    /\ waiters[w].timer = "pending"
    /\ Commit(waitTimeout(Cur, w), "waitTimeout", NoSocket)
    /\ UNCHANGED <<nextMsg, superseded>>

\* The service driven by an application that opens and closes the
\* connection, manages listeners and waits for the connection; the
\* heartbeat and send() are left out.
NextDispatch ==
  \/ Connect
  \/ Disconnect
  \/ Subscribe
  \/ SubscribeOnce
  \/ Unsubscribe
  \/ WaitForConnection
  \/ WaitTimeoutFires
  \/ TransportOpen
  \/ TransportClosed
  \/ TransportMessage

\* The state after construction; the dispatcher specification follows the
\* service through the life of one transport.
InitDispatch ==
  /\ state = "idle"
  /\ socket = NoSocket
  /\ readyState = [s \in {1} |-> "NONE"]
  /\ reconnectAttempts = 0
  /\ manualClose = FALSE
  /\ heartbeatTimer = "null"
  /\ pongTimeout = "null"
  /\ pongPending = 0
  /\ messageQueue = <<>>
  /\ listeners = <<>>
  /\ waiters = <<>>
  /\ wrappers = 0
  /\ reconnectTimers = 0
  /\ lastConnectedAt = "null"
  /\ lastDisconnectedAt = "null"
  /\ nextMsg = 1
  /\ superseded = {}
  /\ offlineSends = 0
  /\ lastOp = [op |-> "init", sock |-> NoSocket]
  /\ hook = HookUnmounted
  /\ poll = PollUnmounted
  /\ sent = <<>>
  /\ emitted = <<>>
  /\ delivered = <<>>

SpecDispatch == InitDispatch /\ [][NextDispatch]_vars

(* ------------------------------ properties ---------------------------- *)

\* The values every variable ranges over.
TypeOK ==
  /\ state \in WSState
  /\ socket \in Sockets \cup {NoSocket}
  /\ readyState \in [Sockets -> ReadyStates]
  /\ reconnectAttempts \in 0..maxReconnectAttempts
  /\ manualClose \in BOOLEAN
  /\ heartbeatTimer \in {"null", "active"}
  /\ pongTimeout \in {"null", "armed", "spent"}
  /\ pongPending \in Nat
  /\ Len(messageQueue) \in 0..maxQueueSize
  /\ DOMAIN listeners \subseteq Channels
  /\ \A ch \in DOMAIN listeners : Members(listeners[ch]) \subseteq Callbacks
  /\ reconnectTimers \in 0..MaxSockets
  /\ nextMsg \in 1..(MaxMsgs + 1)
  /\ superseded \subseteq Sockets
  /\ offlineSends \in 0..MaxMsgs

\* The envelope of the application-level send() of the current step.
AppMessage == [type |-> "alert", data |-> nextMsg]

\* The current handle exists and its transport is open.
HandleOpen == socket # NoSocket /\ readyState[socket] = "OPEN"

\* q2 is q with message m appended, the oldest entry dropped at the bound.
AppendedWithinBound(q, q2, m) ==
  /\ Len(q2) >= 1
  /\ Len(q2) <= maxQueueSize
  /\ q2[Len(q2)] = m
  /\ Len(q2) = (IF Len(q) >= maxQueueSize THEN maxQueueSize ELSE Len(q) + 1)
  /\ \A i \in 1..(Len(q2) - 1) : q2[i] = q[Len(q) - (Len(q2) - 1) + i]

C2_QueueBounded ==
  [][/\ getStats.queuedMessages <= maxQueueSize
     /\ getStats'.queuedMessages <= maxQueueSize
     /\ (lastOp'.op = "send" /\ ~HandleOpen /\ Len(messageQueue) = maxQueueSize) =>
          /\ messageQueue' = Append(Tail(messageQueue), AppMessage)
          /\ getStats'.queuedMessages = maxQueueSize]_vars

\* C2 witness: a send() found the queue at the bound and evicted.
C2_Witness ==
  /\ lastOp.op = "send"
  /\ offlineSends > maxQueueSize
  /\ getStats.queuedMessages = maxQueueSize

\* The smaller of two numbers.
Min(a, b) == IF a <= b THEN a ELSE b

\* C3: after n consecutive send() calls made while the transport is not
\* open, the queue ends with the last min(n, N) of them in the order sent,
\* and for n >= N (N the queue bound) it holds exactly those N.
C3_LastNInOrder ==
  LET m == Min(offlineSends, maxQueueSize) IN
  /\ Len(messageQueue) >= m
  /\ offlineSends >= maxQueueSize => Len(messageQueue) = maxQueueSize
  /\ \A i \in 1..m :
       messageQueue[Len(messageQueue) - m + i] =
         [type |-> "alert", data |-> nextMsg - m - 1 + i]

\* C3 witness: N+k sends with k >= 1 were queued while not open.
C3_Witness ==
  /\ offlineSends > maxQueueSize
  /\ ~HandleOpen
  /\ Len(messageQueue) = maxQueueSize

\* C4 as stated: when the current transport opens with messages queued, the
\* frames transmitted by the open handling start with the queued messages in
\* FIFO order; no frame of a send() made during or after the open handling
\* goes ahead of them.
C4_FlushBeforeNewSends ==
  [][(lastOp'.op = "onopen" /\ lastOp'.sock = socket /\ messageQueue # <<>>) =>
       /\ Len(sent') >= Len(messageQueue)
       /\ \A i \in 1..Len(messageQueue) :
            sent'[i] = <<lastOp'.sock, Stringify(messageQueue[i])>>]_vars

\* q occurs in the frames as one contiguous run transmitted on socket s.
TransmittedOn(frames, s, q) ==
  \E k \in 0..(Len(frames) - Len(q)) :
    \A i \in 1..Len(q) : frames[k + i] = <<s, Stringify(q[i])>>

\* From q to q2 entries left only from the front, and only at the bound.
LeftOnlyByEviction(q, q2) ==
  \E d \in 0..Len(q) :
    /\ Len(q2) >= Len(q) - d
    /\ SubSeq(q2, 1, Len(q) - d) = SubSeq(q, d + 1, Len(q))
    /\ d > 0 => Len(q2) = maxQueueSize

\* C5 as stated: every message queued when a transport open succeeds is
\* transmitted on that transport and the queue is empty once the open
\* handling completes; a queued message leaves the queue only by a flush
\* after an open or by oldest-first eviction.
C5_FlushedOnOpen ==
  [][/\ lastOp'.op = "onopen" =>
          /\ messageQueue' = <<>>
          /\ TransmittedOn(sent', lastOp'.sock, messageQueue)
     /\ lastOp'.op # "onopen" => LeftOnlyByEviction(messageQueue, messageQueue')]_vars

\* C6 as stated: connect() called in state 'connecting' or 'connected'
\* constructs no transport and leaves the state, the handle, the retry
\* counter and all timers unchanged.
C6_ConnectIdempotent ==
  [][(lastOp'.op = "connect" /\ state \in {"connecting", "connected"}) =>
       UNCHANGED <<state, socket, readyState, reconnectAttempts,
                   heartbeatTimer, pongTimeout, reconnectTimers>>]_vars

\* A transport that is opening or open (its callbacks are attached from
\* construction on and never detached).
Live(s) == readyState[s] \in {"CONNECTING", "OPEN"}

\* C7 as stated: at most one transport instance created by the service is
\* live at a time.
C7_AtMostOneLive == Cardinality({s \in Sockets : Live(s)}) <= 1

\* C8: when disconnect() returns, from any state, the closure is marked
\* operator-initiated, both heartbeat timers are inactive, the transport that
\* was current has been asked to close and the handle is cleared, the
\* listener registry is empty and the state is 'disconnected'.
C8_DisconnectPost ==
  [][lastOp'.op = "disconnect" =>
       /\ manualClose'
       /\ heartbeatTimer' = "null"
       /\ pongTimeout' = "null"
       /\ socket' = NoSocket
       /\ socket # NoSocket => readyState'[socket] \in {"CLOSING", "CLOSED"}
       /\ DOMAIN listeners' = {}
       /\ state' = "disconnected"]_vars

\* C8 witness: disconnect() returned after closing a transport that had
\* been connected.
C8_Witness ==
  /\ lastOp.op = "disconnect"
  /\ state = "disconnected"
  /\ lastConnectedAt = "set"
  /\ \E s \in superseded : readyState[s] = "CLOSING"

\* C9 as stated: after disconnect() and until the caller invokes connect()
\* or forceReconnect(), the state stays 'disconnected' and no transport is
\* constructed; no pending timer opens one.
C9_StaysDisconnected ==
  [][(manualClose /\ lastOp'.op \notin {"connect", "forceReconnect"}) =>
       /\ state' = "disconnected"
       /\ \A s \in Sockets : readyState[s] = "NONE" => readyState'[s] = "NONE"]_vars

\* C9 witness: a reconnection timer that was pending at disconnect() has
\* fired and constructed the current transport; the previous transport was
\* the handle at the disconnect(), so no caller connect() came in between.
C9_Witness ==
  /\ lastOp.op = "reconnectTimer"
  /\ socket > 1
  /\ readyState[socket] = "CONNECTING"
  /\ (socket - 1) \in superseded
  /\ state = "connecting"
  /\ ~manualClose

\* C10 as stated: once disconnect() followed by connect() has installed a
\* new transport, no open, close, error or message callback of the earlier
\* transport changes the state, the retry counter or the heartbeat timers,
\* dispatches an event or schedules a reconnection.
C10_NoLateCallback ==
  [][(/\ lastOp'.op \in {"onopen", "onclose", "onerror", "onmessage"}
      /\ lastOp'.sock \in superseded
      /\ socket # NoSocket
      /\ socket # lastOp'.sock) =>
       /\ UNCHANGED <<state, reconnectAttempts, heartbeatTimer, pongTimeout,
                      reconnectTimers>>
       /\ emitted' = <<>>]_vars

\* C11: forceReconnect(), called in any state, has the effect of disconnect()
\* followed by connect(): when it returns the state is 'connecting', a
\* transport constructed by the call is the current handle, the transport
\* that was current has been asked to close, the heartbeat timers are
\* inactive, the listener registry is empty, the closure mark is reset, and
\* no backoff delay was waited for or scheduled.
C11_ForceReconnectPost ==
  [][lastOp'.op = "forceReconnect" =>
       /\ state' = "connecting"
       /\ socket' # NoSocket
       /\ readyState[socket'] = "NONE"
       /\ readyState'[socket'] = "CONNECTING"
       /\ \A s \in Sockets \ {socket'} :
            readyState'[s] = IF s = socket /\ readyState[s] \in {"CONNECTING", "OPEN"}
                             THEN "CLOSING" ELSE readyState[s]
       /\ ~manualClose'
       /\ heartbeatTimer' = "null"
       /\ pongTimeout' = "null"
       /\ pongPending' = 0
       /\ DOMAIN listeners' = {}
       /\ reconnectTimers' = reconnectTimers
       /\ reconnectAttempts' = reconnectAttempts]_vars

\* C11 witness: forceReconnect() returned after replacing a transport that
\* had been connected.
C11_Witness ==
  /\ lastOp.op = "forceReconnect"
  /\ state = "connecting"
  /\ socket > 1
  /\ readyState[socket] = "CONNECTING"
  /\ (socket - 1) \in superseded
  /\ readyState[socket - 1] = "CLOSING"
  /\ lastConnectedAt = "set"

\* The application called a method in the last step.
CallerActed == lastOp.op \in {"connect", "disconnect", "forceReconnect", "send", "on", "off"}

\* A due retry cannot construct its transport within the bound.
RetryBlocked == reconnectTimers > 0 /\ ~HandleOpen /\ ~CanCreate

\* C12 as stated: after the close of a transport that the operator did not
\* ask to close, handled below the retry ceiling (a retry was scheduled and
\* the state is 'reconnecting'), the client reaches state 'connected' again
\* without any caller action when the server accepts the open attempts.
C12_RecoversAfterClose ==
  (lastOp.op = "onclose" /\ lastOp.sock \notin superseded /\ state = "reconnecting")
    ~> (state = "connected" \/ CallerActed \/ RetryBlocked)

\* C12 witness of the failure: the retry has fired and constructed nothing
\* because the handle is an open transport; the state stays 'reconnecting'.
C12_Stuck ==
  /\ state = "reconnecting"
  /\ HandleOpen
  /\ reconnectTimers = 0
  /\ lastOp.op = "reconnectTimer"
  /\ superseded = {}

\* The 'connection' event with the given status.
ConnectionEvent(status) == <<"connection", [status |-> status]>>

\* C13: when the current transport closes and the closure was not asked for
\* by the operator, the close handling stops the heartbeat, records
\* lastDisconnectedAt and dispatches 'connection' {status: 'disconnected'};
\* then below the retry ceiling it schedules exactly one retry of connect()
\* and the state becomes 'reconnecting', and at the ceiling it dispatches
\* 'connection' {status: 'failed'}, schedules nothing and the state stays
\* 'disconnected'.
C13_CloseHandling ==
  [][(lastOp'.op = "onclose" /\ lastOp'.sock = socket /\ ~manualClose) =>
       /\ heartbeatTimer' = "null"
       /\ pongTimeout' = "null"
       /\ pongPending' = 0
       /\ lastDisconnectedAt' = "set"
       /\ IF reconnectAttempts < maxReconnectAttempts
          THEN /\ emitted' = <<ConnectionEvent("disconnected")>>
               /\ reconnectTimers' = reconnectTimers + 1
               /\ state' = "reconnecting"
          ELSE /\ emitted' = <<ConnectionEvent("disconnected"), ConnectionEvent("failed")>>
               /\ reconnectTimers' = reconnectTimers
               /\ state' = "disconnected"]_vars

\* C13 witness: the close of the current transport was handled at the retry
\* ceiling, after closures below it: 'failed' was dispatched and the state
\* is 'disconnected'.
C13_Witness ==
  /\ lastOp.op = "onclose"
  /\ lastOp.sock = socket
  /\ ~manualClose
  /\ reconnectAttempts = maxReconnectAttempts
  /\ emitted = <<ConnectionEvent("disconnected"), ConnectionEvent("failed")>>
  /\ state = "disconnected"

\* The service has given up: the state is 'disconnected' with the closure
\* not marked operator-initiated, which only the close handling at the retry
\* ceiling leaves behind, after dispatching 'connection' {status: 'failed'}.
GaveUp == state = "disconnected" /\ ~manualClose

\* The step constructs no transport.
NoneConstructed ==
  \A s \in DOMAIN readyState : readyState[s] = "NONE" => readyState'[s] = "NONE"

\* GaveUp is entered only by a step that dispatches 'failed'.
GaveUpByFailed ==
  [][(GaveUp' /\ ~GaveUp) =>
       \E i \in DOMAIN emitted' : emitted'[i] = ConnectionEvent("failed")]_vars

\* C14 as stated: once 'connection' {status: 'failed'} has been dispatched,
\* no open attempt is made until the caller invokes connect() or
\* forceReconnect(): no other step constructs a transport.
C14_NoAttemptAfterFailed ==
  [][(GaveUp /\ lastOp'.op \notin {"connect", "forceReconnect"}) => NoneConstructed]_vars

\* C14 witness of the failure: a retry timer constructed the current
\* transport after 'failed' was dispatched.  No transport ever opened and
\* disconnect() was never called, so every close was counted as a retry or
\* answered with 'failed'; more transports closed than retries were counted.
C14_RetryAfterFailed ==
  /\ lastOp.op = "reconnectTimer"
  /\ state = "connecting"
  /\ readyState[socket] = "CONNECTING"
  /\ lastConnectedAt = "null"
  /\ superseded = {}
  /\ Cardinality({s \in DOMAIN readyState : readyState[s] = "CLOSED"}) > reconnectAttempts

\* C15: the retry counter stays within 0..maxReconnectAttempts; it grows by
\* exactly one in exactly the steps that schedule a retry; it is set to 0
\* only by the handling of a successful transport open; and connect(),
\* disconnect(), forceReconnect(), send() and inbound frames leave it
\* unchanged.
C15_RetryCounter ==
  [][/\ reconnectAttempts \in 0..maxReconnectAttempts
     /\ reconnectAttempts' \in 0..maxReconnectAttempts
     /\ (reconnectTimers' > reconnectTimers) <=>
          (reconnectAttempts' = reconnectAttempts + 1)
     /\ reconnectTimers' > reconnectTimers => reconnectTimers' = reconnectTimers + 1
     /\ reconnectAttempts' # reconnectAttempts =>
          \/ reconnectAttempts' = reconnectAttempts + 1
          \/ reconnectAttempts' = 0 /\ lastOp'.op = "onopen"
     /\ lastOp'.op \in {"connect", "disconnect", "forceReconnect", "send", "onmessage"} =>
          reconnectAttempts' = reconnectAttempts]_vars

\* C15 witness: the counter was counted up to the ceiling and a connect()
\* made by the caller has left it there.
C15_Witness ==
  /\ lastOp.op = "connect"
  /\ state = "connecting"
  /\ reconnectAttempts = maxReconnectAttempts

\* C16: when the handling of a successful transport open completes,
\* reconnectAttempts is 0, whatever number of failed attempts preceded it.
C16_OpenResetsCounter ==
  [][lastOp'.op = "onopen" => reconnectAttempts' = 0]_vars

\* C16 witness: the current transport opened after the first transport had
\* closed without the operator asking; that close counted a retry, and no
\* other open came between it and this one.
C16_Witness ==
  /\ lastOp.op = "onopen"
  /\ lastOp.sock = socket
  /\ socket = 2
  /\ readyState[1] = "CLOSED"
  /\ lastDisconnectedAt = "set"
  /\ superseded = {}
  /\ \A s \in Sockets : s > 2 => readyState[s] = "NONE"
  /\ reconnectAttempts = 0

\* The cap of the scenario of C17 and C18: 30000 ms with base 1000 ms.
Cap == 30 * baseReconnectDelay

\* The largest jitter the claims allow for: any bounded non-negative addition
\* up to the supremum of the jitter the code draws.
MaxJitter == JitterMin + JitterSpan

\* C17 as stated: the delay of the retry scheduled with attempts = n is
\* min(base * 2^(n-1) + jitter, cap) for a bounded non-negative jitter.
C17_DelayCapped ==
  lastOp.op = "retryScheduled" =>
    \E jitter \in 0..MaxJitter :
      lastOp.delay = Min(baseReconnectDelay * Pow2(reconnectAttempts - 1) + jitter, Cap)

\* C17 witness of the failure: a retry scheduled with a delay above the cap.
C17_AboveCap ==
  /\ lastOp.op = "retryScheduled"
  /\ lastOp.delay > Cap
  /\ reconnectAttempts <= maxReconnectAttemptsSource

\* The part of C17 that the code meets: the first retry is scheduled about
\* 1000 ms plus jitter after the close and the second about 2000 ms plus
\* jitter.
FirstDelays ==
  (lastOp.op = "retryScheduled" /\ reconnectAttempts \in {1, 2}) =>
    /\ lastOp.delay >= reconnectAttempts * baseReconnectDelay
    /\ lastOp.delay < reconnectAttempts * baseReconnectDelay + MaxJitter

\* C18 as stated: over successive failed opens the retry delay does not
\* decrease from one retry to the next until the cap is reached, and every
\* delay is strictly less than cap + max-jitter.
C18_BoundedBackoff ==
  [][lastOp'.op = "retryScheduled" =>
       /\ lastOp'.delay < Cap + MaxJitter
       /\ lastOp.op = "retryScheduled" =>
            (lastOp.delay <= lastOp'.delay \/ lastOp.delay >= Cap)]_vars

\* C18 witness of the failure: the last of the retries the ceiling allows is
\* scheduled with a delay of more than four times the cap.
C18_FarAboveCap ==
  /\ lastOp.op = "retryScheduled"
  /\ reconnectAttempts = maxReconnectAttemptsSource
  /\ lastOp.delay > 4 * Cap

\* The part of C18 that the code meets: the delay never decreases from one
\* retry to the next.
DelayNonDecreasing ==
  [][(lastOp'.op = "retryScheduled" /\ lastOp.op = "retryScheduled") =>
       lastOp.delay <= lastOp'.delay]_vars

\* The pong deadline armed by a ping on the open current transport s is
\* pending and the state is 'connected'.
AwaitingPong(s) ==
  /\ state = "connected"
  /\ socket = s
  /\ readyState[s] = "OPEN"
  /\ pongTimeout = "armed"

\* The close handling of transport s has just run and scheduled a retry.
ClosedAndRetrying(s) ==
  /\ lastOp = [op |-> "onclose", sock |-> s]
  /\ readyState[s] = "CLOSED"
  /\ state = "reconnecting"
  /\ reconnectTimers > 0

\* C19 as stated: while connected, if the server does not answer a ping, the
\* pong deadline armed by that ping fires and forces the transport closed,
\* after which the close handling runs and a reconnection is scheduled;
\* unless a frame arrives or the caller acts first.
C19_DeadlineForcesClose ==
  \A s \in LifecycleSockets :
    AwaitingPong(s) ~> (ClosedAndRetrying(s) \/ lastOp.op = "onmessage" \/ CallerActed)

\* C19 witness of the failure: the close handling of another transport has
\* cancelled the heartbeat of the open current transport, so that no probe
\* and no deadline is left to detect a server that stopped answering.
C19_Unprobed ==
  /\ HandleOpen
  /\ state = "reconnecting"
  /\ heartbeatTimer = "null"
  /\ pongPending = 0
  /\ lastOp.op = "onclose"
  /\ lastOp.sock # socket
  /\ lastConnectedAt = "set"

\* C20: a ping whose pong does not arrive in time takes the connection out
\* of 'connected' exactly once.  At most one pong deadline is pending, and
\* it belongs to the open current transport of a connected service; when it
\* fires it is used up and forces exactly that transport closed, changing
\* nothing else of the connection; the close handling runs once per
\* transport, and for the current transport it ends state 'connected'.
C20_OneForcedClosure ==
  [][/\ pongPending <= 1
     /\ pongPending' <= 1
     /\ pongPending > 0 => (pongTimeout = "armed" /\ state = "connected" /\ HandleOpen)
     /\ lastOp'.op = "pongTimeout" =>
          /\ readyState[socket] = "OPEN"
          /\ readyState' = [readyState EXCEPT ![socket] = "CLOSING"]
          /\ pongPending' = 0
          /\ pongTimeout' = "spent"
          /\ emitted' = <<>>
          /\ UNCHANGED <<state, socket, reconnectAttempts, reconnectTimers>>
     /\ lastOp'.op = "onclose" =>
          /\ readyState[lastOp'.sock] # "CLOSED"
          /\ readyState'[lastOp'.sock] = "CLOSED"
     /\ \A s \in Sockets : readyState[s] = "CLOSED" => readyState'[s] = "CLOSED"
     /\ (lastOp'.op = "onclose" /\ lastOp'.sock = socket /\ state = "connected") =>
          state' \in {"reconnecting", "disconnected"}]_vars

\* C20 witness: the pong deadline has fired and forced the open current
\* transport closed; the state is still 'connected' until the close
\* handling runs.
C20_Witness ==
  /\ lastOp.op = "pongTimeout"
  /\ readyState[socket] = "CLOSING"
  /\ state = "connected"
  /\ pongTimeout = "spent"
  /\ pongPending = 0

\* The frame types the heartbeat reserves.
Reserved == {"ping", "pong"}

\* The event a delivery <<callback, channel, payload>> hands to its listener.
DeliveredEvent(d) ==
  IF d[2] = "*" /\ "event" \in DOMAIN d[3] THEN d[3].event ELSE d[2]

\* C21 as stated: no inbound frame of the reserved types 'ping' and 'pong'
\* is delivered to a listener, neither on its own channel nor on '*'; every
\* inbound frame of another type is dispatched on the channel its type names
\* ('message' when it has none).
C21_ReservedNeverDelivered ==
  [][lastOp'.op = "onmessage" =>
       /\ \A i \in DOMAIN delivered' : DeliveredEvent(delivered'[i]) \notin Reserved
       /\ (lastOp'.frame # Malformed /\ lastOp'.frame.type \notin Reserved) =>
            /\ emitted' # <<>>
            /\ emitted'[1] = <<IF lastOp'.frame.type = NoType THEN "message"
                               ELSE lastOp'.frame.type,
                               lastOp'.frame>>]_vars

\* C21 witness of the failure: an inbound 'ping' frame was delivered both to
\* a listener of channel 'ping' and to a listener of channel '*'.
C21_PingDelivered ==
  /\ lastOp.op = "onmessage"
  /\ lastOp.frame = [type |-> "ping"]
  /\ \E i \in DOMAIN delivered : delivered[i][2] = "ping"
  /\ \E i \in DOMAIN delivered :
       delivered[i][2] = "*" /\ delivered[i][3].event = "ping"

\* The part of C21 that the code meets: a 'pong' frame is never dispatched,
\* and every frame of a type other than 'pong' is dispatched on the channel
\* its type names.
PongIntercepted ==
  [][lastOp'.op = "onmessage" =>
       /\ \A i \in DOMAIN emitted' : emitted'[i][1] # "pong"
       /\ (lastOp'.frame # Malformed /\ lastOp'.frame.type # "pong") =>
            /\ emitted' # <<>>
            /\ emitted'[1] = <<IF lastOp'.frame.type = NoType THEN "message"
                               ELSE lastOp'.frame.type,
                               lastOp'.frame>>]_vars

\* C22: an inbound frame that cannot be parsed is discarded: nothing is
\* dispatched and no listener is invoked, and the state, the retry counter,
\* the heartbeat timers, the outbound queue, the registry and every
\* transport are left as they were.
C22_MalformedDiscarded ==
  [][(lastOp'.op = "onmessage" /\ lastOp'.frame = Malformed) =>
       /\ emitted' = <<>>
       /\ delivered' = <<>>
       /\ sent' = <<>>
       /\ state' = state
       /\ reconnectAttempts' = reconnectAttempts
       /\ manualClose' = manualClose
       /\ heartbeatTimer' = heartbeatTimer
       /\ pongTimeout' = pongTimeout
       /\ pongPending' = pongPending
       /\ reconnectTimers' = reconnectTimers
       /\ messageQueue' = messageQueue
       /\ listeners' = listeners
       /\ socket' = socket
       /\ readyState' = readyState]_vars

\* C22 witness: an unparseable frame arrived while a listener was
\* registered on '*' and a pong deadline was pending; it was discarded.
C22_Witness ==
  /\ lastOp.op = "onmessage"
  /\ lastOp.frame = Malformed
  /\ "*" \in DOMAIN listeners
  /\ pongTimeout = "armed"
  /\ emitted = <<>>
  /\ delivered = <<>>

RECURSIVE ListenerSends(_, _)
\* The service after n listeners each called send('subscribe'), which is
\* all a listener of this model does when it is invoked.
ListenerSends(st, n) ==
  IF n = 0 THEN st ELSE ListenerSends(send(st, "subscribe", 0), n - 1)

\* C23: the error callback of a transport dispatches exactly one event,
\* 'connection' {status: 'error'}, and does nothing else: the state, the
\* retry counter, manualClose, the heartbeat timers, the transports and the
\* registry are unchanged, no retry is scheduled, and the outbound queue
\* holds what it held plus what the invoked listeners sent themselves.  A
\* retry is scheduled, and 'reconnecting' entered, by the close callback
\* only.
C23_ErrorIsInformational ==
  [][/\ lastOp'.op = "onerror" =>
          /\ emitted' = <<ConnectionEvent("error")>>
          /\ state' = state
          /\ reconnectAttempts' = reconnectAttempts
          /\ manualClose' = manualClose
          /\ heartbeatTimer' = heartbeatTimer
          /\ pongTimeout' = pongTimeout
          /\ pongPending' = pongPending
          /\ reconnectTimers' = reconnectTimers
          /\ socket' = socket
          /\ readyState' = readyState
          /\ listeners' = listeners
          /\ messageQueue' = ListenerSends(Cur, Len(delivered')).messageQueue
          /\ (delivered' = <<>> => messageQueue' = messageQueue)
     /\ reconnectTimers' > reconnectTimers => lastOp'.op = "onclose"
     /\ (state' = "reconnecting" /\ state # "reconnecting") => lastOp'.op = "onclose"]_vars

\* C23 witness: a transport reported an error while the service was
\* connected with the heartbeat running and a listener was registered; the
\* listener received the 'error' event and the service is still connected.
C23_Witness ==
  /\ lastOp.op = "onerror"
  /\ state = "connected"
  /\ heartbeatTimer = "active"
  /\ emitted = <<ConnectionEvent("error")>>
  /\ delivered # <<>>

\* The waitForConnection() calls whose future is still unresolved.
Unresolved == {w \in DOMAIN waiters : waiters[w].resolved = "none"}

\* C24: a waitForConnection() future resolves exactly once: with true at
\* once when the call finds the state 'connected'; otherwise with true at
\* the next transition to 'connected' that precedes its timeout, and with
\* false when the timeout elapses first.
C24_ResolvesOnConnected ==
  [][/\ \A w \in DOMAIN waiters' : waiters'[w].calls <= 1
     /\ \A w \in DOMAIN waiters :
          waiters[w].resolved # "none" => waiters'[w].resolved = waiters[w].resolved
     /\ (lastOp'.op = "waitForConnection" /\ state = "connected") =>
          waiters'[Len(waiters')].resolved = "true"
     /\ (lastOp'.op = "waitForConnection" /\ state # "connected") =>
          waiters'[Len(waiters')].resolved = "none"
     /\ (state # "connected" /\ state' = "connected") =>
          \A w \in Unresolved : waiters'[w].resolved = "true"
     /\ lastOp'.op = "waitTimeout" =>
          \E w \in Unresolved :
            /\ waiters[w].timer = "pending"
            /\ waiters'[w].timer = "fired"
            /\ waiters'[w].resolved = "false"]_vars

\* C24 failing state: the connection has just opened and a
\* waitForConnection() call made before it is still unresolved, its timeout
\* still running.
C24_MissedConnected ==
  /\ lastOp.op = "onopen"
  /\ state = "connected"
  /\ \E w \in DOMAIN waiters :
       /\ waiters[w].resolved = "none"
       /\ waiters[w].timer = "pending"

\* What holds of waitForConnection(): the future resolves at most once and
\* keeps its value; it resolves with true at once when the state is
\* 'connected', with true at a transition to 'connected' while its handler
\* is still registered, and with false when its timeout fires.
ResolvesWhileSubscribed ==
  [][/\ \A w \in DOMAIN waiters' : waiters'[w].calls <= 1
     /\ \A w \in DOMAIN waiters :
          waiters[w].resolved # "none" => waiters'[w].resolved = waiters[w].resolved
     /\ (lastOp'.op = "waitForConnection" /\ state = "connected") =>
          waiters'[Len(waiters')].resolved = "true"
     /\ (state # "connected" /\ state' = "connected") =>
          \A w \in Unresolved :
            ("connection" \in DOMAIN listeners
               /\ Handler(w) \in Members(listeners["connection"])) =>
              waiters'[w].resolved = "true"
     /\ lastOp'.op = "waitTimeout" =>
          \E w \in Unresolved : waiters'[w].resolved = "false"]_vars

\* The callbacks registered on any channel.
Registered(ls) == UNION {Members(ls[ch]) : ch \in DOMAIN ls}

\* The number of registrations in the registry.
ListenerCount(ls) ==
  Cardinality({p \in (DOMAIN ls) \X Registered(ls) : p[2] \in Members(ls[p[1]])})

\* C25: once the future of a waitForConnection() call has resolved, the
\* handler the call registered on 'connection' is in no channel of the
\* registry and its timer is not pending; the timer callback takes away
\* that one registration and no other, and a call that resolves at once
\* registers nothing.
C25_NoListenerLeak ==
  [][/\ \A w \in DOMAIN waiters' :
          waiters'[w].resolved # "none" =>
            /\ waiters'[w].timer # "pending"
            /\ Handler(w) \notin Registered(listeners')
     /\ lastOp'.op = "waitTimeout" =>
          \E w \in DOMAIN waiters :
            /\ waiters[w].timer = "pending"
            /\ waiters'[w].timer = "fired"
            /\ Registered(listeners') = Registered(listeners) \ {Handler(w)}
            /\ ListenerCount(listeners') =
                 ListenerCount(listeners) -
                   (IF Handler(w) \in Registered(listeners) THEN 1 ELSE 0)
     /\ (lastOp'.op = "waitForConnection" /\ state = "connected") =>
          listeners' = listeners]_vars

\* C25 witness: the connection opened while a waitForConnection() call was
\* subscribed next to another 'connection' listener; the future resolved
\* with true, its timer is cleared and only the other listener is left.
C25_Witness ==
  /\ lastOp.op = "onopen"
  /\ \E w \in DOMAIN waiters :
       /\ waiters[w].resolved = "true"
       /\ waiters[w].timer = "cleared"
       /\ Handler(w) \notin Registered(listeners)
  /\ "connection" \in DOMAIN listeners

\* The {event, data} wrapper handed to the listeners of '*'.
Wrapper(e) == [event |-> e[1], data |-> e[2]]

\* The number of invocations of cb on '*' with the given payload.
WildcardCalls(ds, cb, payload) ==
  Cardinality({i \in DOMAIN ds : ds[i] = <<cb, "*", payload>>})

\* During one handler: whatever a listener receives on '*' is the wrapper
\* of a dispatched event; a listener registered on '*' with on() receives
\* the wrapper of each dispatched event once per dispatch of it, and one
\* registered with once() is invoked once in all.
WildcardOncePerEvent(ls, es, ds) ==
  /\ \A i \in DOMAIN ds :
       ds[i][2] = "*" => \E k \in DOMAIN es : ds[i][3] = Wrapper(es[k])
  /\ "*" \in DOMAIN ls =>
       \A cb \in Members(ls["*"]) :
         IF cb.kind = "once"
         THEN Cardinality({i \in DOMAIN ds : ds[i][1] = cb /\ ds[i][2] = "*"}) = 1
         ELSE \A k \in DOMAIN es :
                WildcardCalls(ds, cb, Wrapper(es[k])) =
                  Cardinality({j \in DOMAIN es : es[j] = es[k]})

\* C26: for every dispatched event, an inbound frame handed to the
\* dispatcher or an internal 'connection' event, every listener registered
\* on '*' is invoked exactly once, with the wrapper {event, data}.
C26_WildcardExactlyOnce ==
  [][emitted' # <<>> => WildcardOncePerEvent(listeners, emitted', delivered')]_vars

\* C26 failing state: a frame of type '*' arrived and a listener of '*' was
\* invoked twice for it, first with the bare frame and then with the
\* wrapper.
C26_WildcardTwice ==
  /\ lastOp.op = "onmessage"
  /\ lastOp.frame = [type |-> "*"]
  /\ \E i, j \in DOMAIN delivered :
       /\ i < j
       /\ delivered[i][1] = delivered[j][1]
       /\ delivered[i][2] = "*" /\ delivered[i][3] = lastOp.frame
       /\ delivered[j][2] = "*"
       /\ delivered[j][3] = [event |-> "*", data |-> lastOp.frame]

\* What holds of '*': for every dispatched event whose name is not '*',
\* every listener registered on '*' is invoked exactly once with the
\* wrapper {event, data}.
WildcardOncePerNamedEvent ==
  [][(emitted' # <<>> /\ \A k \in DOMAIN emitted' : emitted'[k][1] # "*") =>
       WildcardOncePerEvent(listeners, emitted', delivered')]_vars

\* The wrappers once() has created so far.
OnceWrappers(n) ==
  {[kind |-> "once", name |-> cb.name, id |-> i] : cb \in OnceCallbacks, i \in 1..n}

\* C27: the wrapper of a once() registration is invoked at most once,
\* whatever is dispatched and also when its callback dispatches on the same
\* channel again: within one handler it is invoked at most once, it is
\* invoked only while registered, it is gone from the registry after the
\* invocation, and a wrapper that is gone is never registered again.
C27_OnceAtMostOnce ==
  [][\A cb \in OnceWrappers(wrappers) :
       LET calls == {i \in DOMAIN delivered' : delivered'[i][1] = cb} IN
       /\ Cardinality(calls) <= 1
       /\ calls # {} => /\ cb \in Registered(listeners)
                        /\ cb \notin Registered(listeners')
       /\ cb \notin Registered(listeners) => cb \notin Registered(listeners')]_vars

\* C27 witness: a once() callback that dispatches on its own channel again
\* was invoked; the event was dispatched twice within the handler, the
\* wrapper was invoked once and it is no longer registered.
C27_Witness ==
  /\ Len(emitted) >= 2
  /\ emitted[1] = emitted[2]
  /\ \E i \in DOMAIN delivered :
       /\ delivered[i][1].kind = "once"
       /\ delivered[i][1].name = "cbReEmit"
       /\ delivered[i][1] \notin Registered(listeners)
       /\ \A j \in DOMAIN delivered : delivered[j][1] = delivered[i][1] => j = i

\* C28: the registry never holds a channel whose listener set is empty,
\* whatever was registered, removed, cleared or dispatched; off() of the
\* last listener of a channel removes the channel entry, off() of one of
\* several removes that listener alone, and off() of a callback that is not
\* registered on the channel changes nothing.
C28_NoEmptyChannel ==
  [][/\ \A ch \in DOMAIN listeners' : listeners'[ch] # <<>>
     /\ lastOp'.op = "off" =>
          LET ch == lastOp'.event
              cb == lastOp'.callback
          IN IF ch \in DOMAIN listeners /\ cb \in Members(listeners[ch])
             THEN /\ DOMAIN listeners' =
                       IF Members(listeners[ch]) = {cb}
                       THEN DOMAIN listeners \ {ch}
                       ELSE DOMAIN listeners
                  /\ \A e \in DOMAIN listeners' :
                       IF e = ch
                       THEN Members(listeners'[e]) = Members(listeners[e]) \ {cb}
                       ELSE listeners'[e] = listeners[e]
             ELSE listeners' = listeners]_vars

\* C28 witness: off() took the only listener of its channel away while
\* another channel has listeners: the channel is gone and the other
\* channel is still there.
C28_Witness ==
  /\ lastOp.op = "off"
  /\ lastOp.deleted
  /\ lastOp.event \notin DOMAIN listeners
  /\ listeners # <<>>
  /\ \A ch \in DOMAIN listeners : listeners[ch] # <<>>

\* C29: between handlers, the state is 'disconnected' only when the closure
\* was asked for by the operator (manualClose) or the retry ceiling has
\* been reached; the handling of any other close ends in 'reconnecting'.
C29_DisconnectedIsTerminal ==
  [][/\ state' = "disconnected" =>
          manualClose' \/ reconnectAttempts' >= maxReconnectAttempts
     /\ (lastOp'.op = "onclose" /\ ~manualClose
           /\ reconnectAttempts < maxReconnectAttempts) =>
          state' = "reconnecting"
     /\ (lastOp'.op = "onclose"
           /\ (manualClose \/ reconnectAttempts >= maxReconnectAttempts)) =>
          state' = "disconnected"]_vars

\* C29 witness: a close was handled at the retry ceiling without a request
\* from the operator, after an earlier close had moved on to a retry; the
\* service rests in 'disconnected'.
C29_Witness ==
  /\ lastOp.op = "onclose"
  /\ state = "disconnected"
  /\ ~manualClose
  /\ reconnectAttempts >= maxReconnectAttempts
  /\ reconnectAttempts > 0

\* C30: from the initial state 'idle', connect() moves to 'connecting' and
\* the open of the transport moves from there to 'connected' with the
\* retry counter at 0, no other state in between; the state is 'idle' only
\* while no transport has been constructed and the counter is 0, and no
\* step enters 'idle'.
C30_IdleConnectingConnected ==
  [][/\ (state = "idle" /\ lastOp'.op = "connect") =>
          /\ state' = "connecting"
          /\ reconnectAttempts' = 0
          /\ \E s \in DOMAIN readyState : readyState'[s] = "CONNECTING"
     /\ lastOp'.op = "onopen" =>
          /\ state' = "connected"
          /\ reconnectAttempts' = 0
     /\ state = "connecting" => state' # "idle"
     /\ state' = "idle" =>
          /\ state = "idle"
          /\ reconnectAttempts' = 0
          /\ \A s \in DOMAIN readyState' : readyState'[s] = "NONE"]_vars

\* C30 witness: the first transport ever constructed has just opened, no
\* close was ever handled, and the service is 'connected' with the retry
\* counter at 0.
C30_Witness ==
  /\ lastOp.op = "onopen"
  /\ state = "connected"
  /\ reconnectAttempts = 0
  /\ lastDisconnectedAt = "null"
  /\ socket = 1
  /\ readyState[1] = "OPEN"
  /\ \A s \in DOMAIN readyState \ {1} : readyState[s] = "NONE"

\* C32: whenever the state is 'connected', the heartbeat probe timer and
\* the pong-deadline timer are not both inactive.
C32_HeartbeatWhileConnected ==
  state = "connected" => (heartbeatTimer = "active" \/ pongPending > 0)

\* C32 witness: the service is connected and a pong has just cancelled the
\* pending deadline, so that the probe timer alone is active.
C32_Witness ==
  /\ state = "connected"
  /\ lastOp.op = "onmessage"
  /\ lastOp.frame = [type |-> "pong"]
  /\ pongTimeout = "spent"
  /\ pongPending = 0
  /\ heartbeatTimer = "active"

\* C33: in every state other than 'connected' the heartbeat probe timer
\* and the pong-deadline timer are both inactive.
C33_NoHeartbeatUnlessConnected ==
  state # "connected" => (heartbeatTimer = "null" /\ pongPending = 0)

\* C33 failing state: connect() has replaced a transport that was being
\* closed while the state was still 'connected'; the state is 'connecting'
\* and the probe timer started for the replaced transport is still active.
C33_HeartbeatWhileConnecting ==
  /\ lastOp.op = "connect"
  /\ state = "connecting"
  /\ heartbeatTimer = "active"
  /\ \E s \in DOMAIN readyState : s # socket /\ readyState[s] = "CLOSING"

\* What holds of the timers outside 'connected': the close handling and
\* disconnect() leave both inactive.
HeartbeatClearedOnClose ==
  [][lastOp'.op \in {"onclose", "disconnect"} =>
       (heartbeatTimer' = "null" /\ pongPending' = 0)]_vars

\* C34: every probe, a heartbeat tick that transmits a ping, arms a pong
\* deadline, and at most one pong deadline is pending at a time; a pong
\* frame cancels the pending deadline, and a deadline fires, force-closing
\* the transport, only while it is armed and uncancelled.
C34_PongCancelsDeadline ==
  [][/\ pongPending' <= 1
     /\ (lastOp'.op = "heartbeatTick" /\ sent' # <<>>) =>
          /\ state = "connected"
          /\ pongTimeout' = "armed"
          /\ pongPending' = 1
     /\ (lastOp'.op = "onmessage" /\ lastOp'.frame = [type |-> "pong"]) =>
          /\ pongPending' = 0
          /\ pongTimeout' # "armed"
          /\ readyState' = readyState
     /\ lastOp'.op = "pongTimeout" =>
          /\ pongTimeout = "armed"
          /\ pongPending = 1]_vars

\* C34 witness: a pong arrived on the current transport while the deadline
\* of the last ping was pending; the deadline is cancelled and the
\* transport is still open.
C34_Witness ==
  /\ lastOp.op = "onmessage"
  /\ lastOp.frame = [type |-> "pong"]
  /\ lastOp.sock = socket
  /\ readyState[socket] = "OPEN"
  /\ pongTimeout = "spent"
  /\ pongPending = 0

\* C35: between handlers the state is 'connected' exactly when the current
\* transport handle exists and is open, so that isConnected() tells
\* whether send() transmits or queues.
C35_ConnectedIffOpen ==
  (state = "connected") <=> (socket # NoSocket /\ readyState[socket] = "OPEN")

\* C35 failing state: the only transport ever constructed is being closed
\* by the pong deadline and its close event has not been delivered yet:
\* the state is still 'connected' although the handle is not open.
C35_ConnectedWhileClosing ==
  /\ lastOp.op = "pongTimeout"
  /\ state = "connected"
  /\ socket = 1
  /\ readyState[1] = "CLOSING"
  /\ \A s \in DOMAIN readyState \ {1} : readyState[s] = "NONE"

\* What holds of the state and the handle: the state becomes 'connected'
\* in the open handling only, and the open handling of the current
\* transport leaves the state 'connected' with the handle open.
ConnectedByOpen ==
  [][/\ (state' = "connected" /\ state # "connected") => lastOp'.op = "onopen"
     /\ (lastOp'.op = "onopen" /\ lastOp'.sock = socket) =>
          /\ state' = "connected"
          /\ readyState'[socket'] = "OPEN"]_vars

\* C36: at most one reconnection timer is pending at any time, and one is
\* pending only while the state is 'reconnecting'.
C36_OneReconnectTimer ==
  /\ reconnectTimers <= 1
  /\ reconnectTimers > 0 => state = "reconnecting"

\* C36 failing state: two reconnection timers are pending at once, the
\* second scheduled by a close handled while the first was still pending.
C36_TwoTimersPending ==
  /\ lastOp.op = "onclose"
  /\ reconnectTimers >= 2
  /\ state = "reconnecting"

\* C39: disconnect() leaves the outbound queue as it was, the same
\* messages in the same order, and what is queued when a transport opens
\* is transmitted by the open handling, which empties the queue.
C39_QueueSurvivesDisconnect ==
  [][/\ lastOp'.op = "disconnect" => messageQueue' = messageQueue
     /\ (lastOp'.op = "onopen" /\ messageQueue # <<>>) =>
          /\ messageQueue' = <<>>
          /\ TransmittedOn(sent', lastOp'.sock, messageQueue)]_vars

\* C39 failing state: after a disconnect() a transport that is not the
\* current handle has opened, the first successful open since, and the
\* queue still holds its messages, nothing having been transmitted.
C39_NotFlushedAfterDisconnect ==
  /\ lastOp.op = "onopen"
  /\ lastOp.sock # socket
  /\ superseded # {}
  /\ messageQueue # <<>>
  /\ sent = <<>>
  /\ offlineSends > 0

\* What holds of the queue: disconnect() leaves it unchanged, and the open
\* handling of the transport that is the current handle transmits it in
\* order and empties it.
QueueKeptAndFlushedOnCurrent ==
  [][/\ lastOp'.op = "disconnect" => messageQueue' = messageQueue
     /\ (lastOp'.op = "onopen" /\ lastOp'.sock = socket /\ messageQueue # <<>>) =>
          /\ messageQueue' = <<>>
          /\ TransmittedOn(sent', lastOp'.sock, messageQueue)]_vars

(* ---------------- the useWebSocket hook as a state machine ------------ *)

\* The service variables, which no step of a hook touches.
serviceVars ==
  <<state, socket, readyState, reconnectAttempts, manualClose,
    heartbeatTimer, pongTimeout, pongPending, messageQueue, listeners,
    waiters, wrappers, reconnectTimers, lastConnectedAt, lastDisconnectedAt,
    nextMsg, superseded, offlineSends, lastOp, sent, emitted, delivered>>

\* The hook at the start of callback op, run for socket s (or for none).
HookCur(op, s) == [hook EXCEPT !.last = [op |-> op, sock |-> s, delay |-> 0]]

\* The hook a callback leaves behind.
HookCommit(h) == hook' = h /\ UNCHANGED <<serviceVars, poll>>

\* new WebSocket(url) stays within the bound.
HookCanCreate == Len(hook.sockets) < MaxHookSockets

\* The component mounts: the effect runs connect().
HookMount ==
  \E o \in HookOptions :
    /\ ~hook.mounted /\ ~hook.unmounted
    /\ HookCommit(hookConnect([HookCur("mount", 0) EXCEPT !.mounted = TRUE,
                                                          !.options = o]))

\* The component renders with other options: the effect's cleanup runs,
\* then the effect with the new connect().
HookRerender ==
  \E o \in HookOptions :
    /\ hook.mounted
    /\ o # hook.options
    /\ HookCanCreate
    /\ HookCommit(hookConnect(cleanup([HookCur("rerender", 0)
                                          EXCEPT !.options = o,
                                                 !.optionsChanged = TRUE])))

\* The component unmounts: the effect's cleanup runs.
HookUnmount ==
  /\ hook.mounted
  /\ HookCommit(cleanup([HookCur("unmount", 0) EXCEPT !.mounted = FALSE,
                                                      !.unmounted = TRUE]))

\* The handshake of socket s succeeds; onopen runs if it is attached.
HookTransportOpen ==
  \E s \in DOMAIN hook.sockets :
    /\ hook.sockets[s].readyState = "CONNECTING"
    /\ LET h == [HookCur("onopen", s) EXCEPT !.sockets[s].readyState = "OPEN"] IN
       HookCommit(IF h.sockets[s].attached THEN hookOnopen(h)
                  ELSE [h EXCEPT !.last.op = "none"])

\* Socket s closes; onclose runs if it is attached.
HookTransportClosed ==
  \E s \in DOMAIN hook.sockets :
    /\ hook.sockets[s].readyState \in {"CONNECTING", "OPEN", "CLOSING"}
    /\ LET h == [HookCur("onclose", s) EXCEPT !.sockets[s].readyState = "CLOSED"] IN
       HookCommit(IF h.sockets[s].attached THEN hookOnclose(h)
                  ELSE [h EXCEPT !.last.op = "none"])

\* Socket s reports an error; onerror runs if it is attached.
HookTransportError ==
  \E s \in DOMAIN hook.sockets :
    /\ hook.sockets[s].readyState \in {"CONNECTING", "OPEN", "CLOSING"}
    /\ hook.sockets[s].attached
    /\ HookCommit(hookOnerror(HookCur("onerror", s)))

\* A frame arrives on socket s; onmessage runs if it is attached.
HookTransportMessage ==
  \E s \in DOMAIN hook.sockets, parsed \in BOOLEAN :
    /\ hook.sockets[s].readyState = "OPEN"
    /\ hook.sockets[s].attached
    /\ HookCommit(hookOnmessage(HookCur("onmessage", s), parsed))

\* A reconnect delay elapses.
HookTimerFires ==
  /\ hook.timers > 0
  /\ HookCanCreate
  /\ HookCommit(hookTimerFires(HookCur("reconnectTimer", 0)))

\* The heartbeat interval elapses: a ping goes out if ws.current is open.
HookHeartbeatTick ==
  /\ hook.heartbeats > 0
  /\ HookCommit(HookCur("heartbeatTick", 0))

\* The component calls sendMessage().
HookSend ==
  /\ hook.mounted
  /\ Len(hook.messageQueue) < MaxHookQueue
  /\ HookCommit(sendMessage(HookCur("sendMessage", 0)))

NextHook ==
  \/ HookMount
  \/ HookRerender
  \/ HookUnmount
  \/ HookTransportOpen
  \/ HookTransportClosed
  \/ HookTransportError
  \/ HookTransportMessage
  \/ HookTimerFires
  \/ HookHeartbeatTick
  \/ HookSend

\* One useWebSocket() instance from before its mount to after its unmount.
SpecHook == Init /\ [][NextHook]_vars

\* C31: in the useWebSocket hook the close handling of a socket schedules a
\* retry, one more pending connect, whenever reconnectAttempts is unbounded
\* (the default); with a finite reconnectAttempts = k it schedules one only
\* while fewer than k retries were scheduled since the last open, and
\* otherwise leaves the status 'closed', where it stays, with no socket
\* constructed, until the component renders with other options.
C31_HookRetryLimit ==
  [][/\ hook'.last.op = "onclose" =>
          IF hook.options.unbounded
               \/ hook.reconnectCount < hook.options.reconnectAttempts
          THEN /\ hook'.timers = hook.timers + 1
               /\ hook'.reconnectTimeoutRef = "running"
               /\ hook'.reconnectCount = hook.reconnectCount + 1
               /\ hook'.status = "reconnecting"
          ELSE /\ hook'.timers = hook.timers
               /\ hook'.reconnectCount = hook.reconnectCount
               /\ hook'.status = "closed"
     /\ hook'.timers > hook.timers => hook'.last.op = "onclose"
     /\ (hook.status = "closed" /\ hook'.last.op # "rerender") =>
          /\ hook'.status = "closed"
          /\ Len(hook'.sockets) = Len(hook.sockets)
          /\ hook'.timers = 0]_vars

\* C31 witness: with reconnectAttempts = 1 the socket of the one retry has
\* closed too; no further retry is scheduled and the status is 'closed'.
C31_Witness ==
  /\ hook.mounted
  /\ ~hook.options.unbounded
  /\ hook.options.reconnectAttempts = 1
  /\ hook.last.op = "onclose"
  /\ hook.reconnectCount = 1
  /\ hook.closes = 2
  /\ hook.timers = 0
  /\ hook.status = "closed"

\* The sockets of the hook whose callbacks are attached.
Attached(h) == {s \in DOMAIN h.sockets : h.sockets[s].attached}

\* C37: in the useWebSocket hook connect() and the unmount cleanup cancel
\* the pending reconnect timer and the heartbeat interval and detach the
\* callbacks of the previous socket, which they close, before a new socket
\* is installed: a callback runs for the current socket only, at most one
\* socket has callbacks attached and it is the current one, at most one
\* reconnect timer is pending, and after the unmount no socket has
\* callbacks, no timer is left and no socket is constructed.
C37_CancelThenReplace ==
  [][/\ hook'.last.op \in {"onopen", "onclose", "onerror", "onmessage"} =>
          hook'.last.sock = hook.ws
     /\ Attached(hook') \subseteq {hook'.ws}
     /\ hook'.timers <= 1
     /\ hook'.heartbeats <= 1
     /\ hook'.last.op \in {"mount", "rerender", "reconnectTimer", "unmount"} =>
          /\ hook'.timers = 0
          /\ hook'.heartbeats = 0
          /\ \A s \in DOMAIN hook.sockets :
               /\ ~hook'.sockets[s].attached
               /\ hook'.sockets[s].readyState \in {"CLOSING", "CLOSED"}
     /\ hook'.unmounted =>
          /\ Attached(hook') = {}
          /\ hook'.timers = 0
          /\ Len(hook'.sockets) = Len(hook.sockets)]_vars

\* C37 witness: a render with other options has replaced a socket that was
\* still live: the previous socket is closing without callbacks and the
\* new one is the current socket, with callbacks.
C37_Witness ==
  /\ hook.last.op = "rerender"
  /\ hook.ws >= 2
  /\ hook.sockets[hook.ws - 1].readyState = "CLOSING"
  /\ ~hook.sockets[hook.ws - 1].attached
  /\ hook.sockets[hook.ws].attached
  /\ hook.timers = 0

\* C38: in the useWebSocket hook the retry scheduled by a close handling
\* is delayed by min(reconnectInterval * 2^reconnectCount,
\* maxReconnectInterval), which never exceeds maxReconnectInterval, and an
\* open resets reconnectCount to 0; while the options are those of the
\* last open (or of the mount), reconnectCount is the number k of closes
\* handled since, so that the delay is min(reconnectInterval * 2^k,
\* maxReconnectInterval) and is not below the delay of the retry before.
C38_HookBackoff ==
  [][/\ hook'.timers > hook.timers =>
          /\ hook'.last.delay =
               MathMin(hook.options.reconnectInterval * HookPow2(hook.reconnectCount),
                       hook.options.maxReconnectInterval)
          /\ hook'.last.delay <= hook.options.maxReconnectInterval
          /\ hook'.last.delay > 0
          /\ ~hook.optionsChanged =>
               /\ hook.reconnectCount = hook.closes
               /\ hook'.last.delay >= hook.lastDelay
     /\ hook'.last.op = "onopen" => hook'.reconnectCount = 0]_vars

\* C38 witness: the third close in a row was handled with the options of
\* the mount, maxReconnectInterval being 5000: the retry is delayed by
\* min(2000 * 4, 5000) = 5000.
C38_Witness ==
  /\ hook.last.op = "onclose"
  /\ ~hook.optionsChanged
  /\ hook.options.maxReconnectInterval = 5000
  /\ hook.closes = 3
  /\ hook.reconnectCount = 3
  /\ hook.last.delay = 5000
  /\ hook.timers = 1

\* ---------------------------------------------------------------------
\* useRealTimeData, the polling hook: its effect, its interval, refresh()
\* and the continuations of fetchData after the await.
\* ---------------------------------------------------------------------

\* The settled fetch of controller c is superseded: a newer fetchData call
\* made a later controller, or the effect's cleanup ran since it started.
Superseded(p, c) == c < Len(p.controllers) \/ p.cleaned

\* The fields the hook returns and the option callbacks' call counts.
Observed(p) ==
  <<p.data, p.error, p.lastUpdated, p.isConnected, p.onSuccess, p.onError>>

\* The polling hook at the start of step op, run for controller c.
PollCur(op, c) ==
  [poll EXCEPT !.last = [op |-> op, ctl |-> c, superseded |-> FALSE,
                         changed |-> FALSE]]

\* The polling hook a step leaves behind.
PollCommit(p) == poll' = p /\ UNCHANGED <<serviceVars, hook>>

\* new AbortController() stays within the bound.
CanFetch == Len(poll.controllers) < MaxFetches

\* The component mounts with its options: the effect runs.
PollMount ==
  /\ ~poll.mounted /\ ~poll.unmounted
  /\ \E en \in BOOLEAN, ip \in BOOLEAN :
       PollCommit(pollEffect([PollCur("mount", 0) EXCEPT
                                !.mounted = TRUE, !.enabled = en,
                                !.intervalPositive = ip]))

\* A render changes enabled or interval: the cleanup runs, then the effect.
PollRerender ==
  /\ poll.mounted /\ CanFetch
  /\ \E en \in BOOLEAN, ip \in BOOLEAN :
       /\ <<en, ip>> # <<poll.enabled, poll.intervalPositive>>
       /\ PollCommit(pollEffect(
            [(IF poll.enabled THEN pollCleanup(PollCur("rerender", 0))
              ELSE PollCur("rerender", 0))
               EXCEPT !.enabled = en, !.intervalPositive = ip]))

\* The component unmounts: the cleanup of an effect that ran.
PollUnmount ==
  /\ poll.mounted
  /\ PollCommit([(IF poll.enabled THEN pollCleanup(PollCur("unmount", 0))
                  ELSE PollCur("unmount", 0))
                   EXCEPT !.mounted = FALSE, !.unmounted = TRUE])

\* The interval fires: fetchData().
PollIntervalTick ==
  /\ poll.intervalRef = "running" /\ CanFetch
  /\ PollCommit(fetchData(PollCur("tick", 0)))

\* The component calls refresh().
PollRefresh ==
  /\ poll.mounted /\ CanFetch
  /\ PollCommit(refresh(PollCur("refresh", 0)))

\* The history of a continuation of fetchData for controller c.
PollSettled(p, c) ==
  [p EXCEPT !.last.superseded = Superseded(poll, c),
            !.last.changed = Observed(p) # Observed(poll)]

\* fetchFunction() of a pending fetch resolves.
PollFetchResolves ==
  \E c \in DOMAIN poll.controllers, d \in PollData :
    /\ ~poll.controllers[c].settled
    /\ PollCommit(PollSettled(fetchResolved(PollCur("resolve", c), c, d), c))

\* fetchFunction() of a pending fetch rejects.
PollFetchRejects ==
  \E c \in DOMAIN poll.controllers, e \in PollFailures :
    /\ ~poll.controllers[c].settled
    /\ PollCommit(PollSettled(fetchRejected(PollCur("reject", c), c, e), c))

NextPoll ==
  \/ PollMount
  \/ PollRerender
  \/ PollUnmount
  \/ PollIntervalTick
  \/ PollRefresh
  \/ PollFetchResolves
  \/ PollFetchRejects

SpecPoll == Init /\ [][NextPoll]_vars

\* C40: once a newer fetchData call has started or the hook has been
\* cleaned up, the outcome of an earlier fetch changes none of data, error,
\* lastUpdated and isConnected and calls neither onSuccess nor onError.
C40_SupersededFetchIgnored ==
  [][(poll'.last.op \in {"resolve", "reject"}
        /\ Superseded(poll, poll'.last.ctl))
       => Observed(poll') = Observed(poll)]_vars

\* In a mounted component a superseded fetch rejected with something other
\* than an AbortError, and error, isConnected or the onError count changed.
C40_SupersededFailureApplied ==
  /\ poll.mounted
  /\ poll.last.op = "reject"
  /\ poll.last.superseded
  /\ poll.last.changed

\* What the code does keep: a superseded fetch that resolves changes
\* nothing.
SupersededSuccessIgnored ==
  [][(poll'.last.op = "resolve" /\ Superseded(poll, poll'.last.ctl))
       => Observed(poll') = Observed(poll)]_vars

====
